---- MODULE Spec2Model ----
(***************************************************************************)
(* Verification model of the SQL Migration Analysis & Synthesis Engine of  *)
(* flyway-migration-manager.                                               *)
(*                                                                         *)
(* SQL text is a sequence of lexical tokens.  A token is a maximal run of  *)
(* word characters [A-Za-z0-9_] (a "word"), one white-space character      *)
(* (" " or "\n"), or one punctuation mark; the comment opener "--" is one  *)
(* token.  Because words are maximal runs, two words are never adjacent.   *)
(* The characters the scanners of the code look at one by one (the quote   *)
(* and the semicolon) are tokens of their own, so a loop over tokens does  *)
(* what the code's loop over characters does.                              *)
(***************************************************************************)
EXTENDS Integers, Sequences, FiniteSets, TLC

VARIABLES
    sql,          \* the SQL text handed to the text functions
    statements,   \* result of splitStatements(sql)
    down,         \* result of generateRollbackSql(sql)
    report,       \* result of analyzeDryRun(sql)
    lint,         \* result of analyzeSql(sql)
    refs,         \* result of extractTableRefs(sql)
    migrations,   \* the Migration[] handed to buildDependencyGraph
    graph,        \* result of buildDependencyGraph(migrations)
    schemas,      \* the (before, after) snapshots handed to diffSchemas
    diff,         \* result of diffSchemas
    migrationSql, \* result of generateMigrationFromDiff(diff)
    config,       \* the config object handed to a single-statement generator
    generated,    \* result of that generator
    run,          \* a validation run of a project: its progress, event stream and stored rows
    store         \* the migrations table during renumberMigrations or insertMigrationAtVersion

vars == <<sql, statements, down, report, lint, refs, migrations, graph,
          schemas, diff, migrationSql, config, generated, run, store>>

\* The value of a result variable before its function has been called.
None == [called |-> FALSE]

----------------------------------------------------------------------------
(* Lexical classes *)

SP == " "
NL == "\n"
SQ == "'"
DQ == "\""
SEMI == ";"
DASHES == "--"

WsTokens == {SP, NL}
PunctTokens ==
    {SQ, DQ, SEMI, DASHES, "(", ")", ",", ".", "=", "*", ":", "<", ">", "-",
     "/*", "*/"}

IsWs(t) == t \in WsTokens
IsWord(t) == t \notin WsTokens /\ t \notin PunctTokens

\* String.prototype.toUpperCase / toLowerCase on the words of the model's
\* vocabulary that carry lower-case (resp. upper-case) letters.
UpperOf ==
    ("users" :> "USERS") @@ ("Users" :> "USERS") @@ ("t" :> "T") @@
    ("u" :> "U") @@ ("c" :> "C") @@ ("d" :> "D") @@ ("fk" :> "FK") @@
    ("ix" :> "IX") @@ ("v" :> "V") @@ ("e" :> "E") @@ ("a" :> "A") @@
    ("b" :> "B") @@ ("x" :> "X") @@ ("y" :> "Y") @@ ("id" :> "ID") @@
    ("int" :> "INT") @@ ("text" :> "TEXT") @@ ("drop" :> "DROP") @@
    ("table" :> "TABLE") @@ ("alter" :> "ALTER") @@ ("add" :> "ADD") @@
    ("column" :> "COLUMN") @@ ("create" :> "CREATE") @@ ("s" :> "S") @@
    ("iy" :> "IY") @@ ("ck" :> "CK") @@ ("orders" :> "ORDERS")

LowerOf ==
    ("USERS" :> "users") @@ ("Users" :> "users") @@ ("T" :> "t") @@
    ("U" :> "u") @@ ("C" :> "c") @@ ("INT" :> "int") @@ ("TEXT" :> "text") @@
    ("IF" :> "if") @@ ("EXISTS" :> "exists") @@ ("NOT" :> "not") @@
    ("ADD" :> "add") @@ ("COLUMN" :> "column") @@ ("DROP" :> "drop") @@
    ("CONSTRAINT" :> "constraint") @@ ("idx_Users_c" :> "idx_users_c") @@
    ("idx_Users_c_d" :> "idx_users_c_d")

toUpperCase(t) == IF t \in DOMAIN UpperOf THEN UpperOf[t] ELSE t
toLowerCase(t) == IF t \in DOMAIN LowerOf THEN LowerOf[t] ELSE t

RECURSIVE MapSeq(_, _)
MapSeq(Op(_), s) ==
    IF s = <<>> THEN <<>> ELSE <<Op(Head(s))>> \o MapSeq(Op, Tail(s))

RECURSIVE FilterSeq(_, _)
FilterSeq(Keep(_), s) ==
    IF s = <<>> THEN <<>>
    ELSE (IF Keep(Head(s)) THEN <<Head(s)>> ELSE <<>>) \o FilterSeq(Keep, Tail(s))

IsNonEmpty(piece) == piece # <<>>

\* A loop `for i = lo..hi` over a state: Step(st, i) is one iteration.  The
\* range is halved and the left half is evaluated before the right one, so
\* the evaluation depth grows with the logarithm of the number of iterations.
RECURSIVE FoldRange(_, _, _, _)
FoldRange(Step(_, _), st, lo, hi) ==
    IF lo > hi THEN st
    ELSE IF lo = hi THEN Step(st, lo)
    ELSE CHOOSE r \in {FoldRange(Step, left, (lo + hi) \div 2 + 1, hi) :
                          left \in {FoldRange(Step, st, lo, (lo + hi) \div 2)}} : TRUE

RECURSIVE Flatten(_)
Flatten(ss) == IF ss = <<>> THEN <<>> ELSE Head(ss) \o Flatten(Tail(ss))

RECURSIVE Join(_, _)
Join(ss, sep) ==
    IF ss = <<>> THEN <<>>
    ELSE IF Len(ss) = 1 THEN ss[1]
    ELSE ss[1] \o sep \o Join(Tail(ss), sep)

Reverse(s) == [i \in 1..Len(s) |-> s[Len(s) + 1 - i]]

\* String.prototype.trim
RECURSIVE TrimStart(_)
TrimStart(s) ==
    IF s # <<>> /\ IsWs(Head(s)) THEN TrimStart(Tail(s)) ELSE s

RECURSIVE TrimEnd(_)
TrimEnd(s) ==
    IF s # <<>> /\ IsWs(s[Len(s)]) THEN TrimEnd(SubSeq(s, 1, Len(s) - 1)) ELSE s

trim(s) == TrimEnd(TrimStart(s))

\* String.prototype.split('\n')
splitLinesStep(text, st, i) ==
    IF text[i] = NL THEN [lines |-> Append(st.lines, st.cur), cur |-> <<>>]
    ELSE [st EXCEPT !.cur = Append(@, text[i])]

splitLinesResult(st) == Append(st.lines, st.cur)

splitLines(text) ==
    splitLinesResult(FoldRange(LAMBDA st, i : splitLinesStep(text, st, i),
                               [lines |-> <<>>, cur |-> <<>>], 1, Len(text)))

----------------------------------------------------------------------------
(* Regular expressions of the code, over token sequences.                  *)
(*                                                                         *)
(* A pattern is a sequence of elements; Match follows the backtracking     *)
(* order of the JavaScript engine: an optional group or a greedy run is    *)
(* tried longest first, a lazy run shortest first, and the first complete  *)
(* match wins.  A keyword of a pattern matches one whole word of the text  *)
(* (all patterns carry the i flag): no word of the model's vocabulary      *)
(* contains a keyword as a proper part, so \b always holds at a keyword.   *)

Lit(w) == [k |-> "lit", w |-> w]            \* a keyword, any letter case
Tok(t) == [k |-> "tok", w |-> t]            \* one punctuation character
Word == [k |-> "word"]                      \* \w+
OptQ == [k |-> "optq"]                      \* "?
Ws1 == [k |-> "run", c |-> "ws", lo |-> 1, greedy |-> TRUE]         \* \s+
Ws0 == [k |-> "run", c |-> "ws", lo |-> 0, greedy |-> TRUE]         \* \s*
Any0 == [k |-> "run", c |-> "dot", lo |-> 0, greedy |-> TRUE]       \* .*
Any1 == [k |-> "run", c |-> "dot", lo |-> 1, greedy |-> TRUE]       \* .+
Any1Lazy == [k |-> "run", c |-> "dot", lo |-> 1, greedy |-> FALSE]  \* .+?
NotSemi0 == [k |-> "run", c |-> "notsemi", lo |-> 0, greedy |-> TRUE] \* [^;]*
Opt(p) == [k |-> "opt", p |-> p]            \* (?:p)?
Alt(p, q) == [k |-> "alt", p |-> p, q |-> q] \* (?:p|q)
Grp(n, p) == [k |-> "grp", n |-> n, p |-> p] \* the n-th capture group
GrpStart(n) == [k |-> "gs", n |-> n]
GrpEnd(n) == [k |-> "ge", n |-> n]
End == [k |-> "end"]                        \* $ (without the m flag)

NoMatch == [pos |-> 0, cap |-> <<>>]
NoCaptures == <<<<0, 0>>, <<0, 0>>, <<0, 0>>>>

InClass(c, t) ==
    CASE c = "ws" -> IsWs(t)
      [] c = "dot" -> t # NL
      [] c = "notsemi" -> t # SEMI

RECURSIVE RunLen(_, _, _)
RunLen(c, s, i) ==
    IF i <= Len(s) /\ InClass(c, s[i]) THEN 1 + RunLen(c, s, i + 1) ELSE 0

RECURSIVE Match(_, _, _, _)
RECURSIVE TryRun(_, _, _, _, _, _, _, _)

\* The continuation `rest` after a run of k tokens, k stepping from the
\* longest to the shortest (greedy) or from the shortest up (lazy).
TryRun(rest, s, i, k, lo, hi, step, c) ==
    IF k < lo \/ k > hi THEN NoMatch
    ELSE LET r == Match(rest, s, i + k, c) IN
         IF r.pos # 0 THEN r ELSE TryRun(rest, s, i, k + step, lo, hi, step, c)

\* The match of pattern `pat` on text s starting at token i with captures
\* c: [pos |-> the token after the match, cap |-> the captures], or NoMatch.
Match(pat, s, i, c) ==
    IF pat = <<>> THEN [pos |-> i, cap |-> c]
    ELSE
      LET e == Head(pat)
          rest == Tail(pat)
      IN
      CASE e.k = "lit" ->
             IF i <= Len(s) /\ IsWord(s[i]) /\ toUpperCase(s[i]) = e.w
             THEN Match(rest, s, i + 1, c) ELSE NoMatch
        [] e.k = "tok" ->
             IF i <= Len(s) /\ s[i] = e.w
             THEN Match(rest, s, i + 1, c) ELSE NoMatch
        [] e.k = "word" ->
             IF i <= Len(s) /\ IsWord(s[i])
             THEN Match(rest, s, i + 1, c) ELSE NoMatch
        [] e.k = "optq" ->
             LET r == IF i <= Len(s) /\ s[i] = DQ
                      THEN Match(rest, s, i + 1, c) ELSE NoMatch
             IN IF r.pos # 0 THEN r ELSE Match(rest, s, i, c)
        [] e.k = "run" ->
             LET n == RunLen(e.c, s, i) IN
             IF e.greedy THEN TryRun(rest, s, i, n, e.lo, n, -1, c)
             ELSE TryRun(rest, s, i, e.lo, e.lo, n, 1, c)
        [] e.k = "opt" ->
             LET r == Match(e.p \o rest, s, i, c) IN
             IF r.pos # 0 THEN r ELSE Match(rest, s, i, c)
        [] e.k = "alt" ->
             LET r == Match(e.p \o rest, s, i, c) IN
             IF r.pos # 0 THEN r ELSE Match(e.q \o rest, s, i, c)
        [] e.k = "grp" ->
             Match(<<GrpStart(e.n)>> \o e.p \o <<GrpEnd(e.n)>> \o rest, s, i, c)
        [] e.k = "gs" -> Match(rest, s, i, [c EXCEPT ![e.n] = <<i, i>>])
        [] e.k = "ge" -> Match(rest, s, i, [c EXCEPT ![e.n] = <<@[1], i>>])
        [] e.k = "end" -> IF i = Len(s) + 1 THEN Match(rest, s, i, c) ELSE NoMatch

\* str.match(/^pat/): the pattern anchored at the start of the text
MatchStart(pat, s) == Match(pat, s, 1, NoCaptures)

\* The leftmost match of an unanchored pattern at or after token `from`:
\* [start, pos, cap], start = 0 when there is none.
NotFound == [start |-> 0, pos |-> 0, cap |-> <<>>]

foundAt(from, r) ==
    IF r.pos # 0 THEN [start |-> from, pos |-> r.pos, cap |-> r.cap] ELSE NotFound

findStep(pat, s, st, from) ==
    IF st.start # 0 THEN st ELSE foundAt(from, Match(pat, s, from, NoCaptures))

Find(pat, s, from) ==
    FoldRange(LAMBDA st, k : findStep(pat, s, st, k), NotFound, from, Len(s) + 1)

\* pattern.test(s)
Test(pat, s) == Find(pat, s, 1).start # 0

\* The text of capture group n of match r on text s
Group(r, s, n) == SubSeq(s, r.cap[n][1], r.cap[n][2] - 1)

\* s.matchAll(/pat/g): the successive non-overlapping matches
RECURSIVE MatchAll(_, _, _)
MatchAll(pat, s, from) ==
    LET r == Find(pat, s, from) IN
    IF r.start = 0 THEN <<>>
    ELSE <<r>> \o MatchAll(pat, s, IF r.pos > r.start THEN r.pos ELSE r.start + 1)

\* s.replace(/'(?:[^']|'')*'/g, placeholder): from an opening quote the
\* body takes every non-quote character and every doubled quote it can; a
\* single quote closes the literal.  When the text ends first, the engine
\* backs up to the last doubled quote and closes the literal on its first
\* quote; with no doubled quote there is no match at this opening quote.
literalStep(s, st, j) ==
    IF st.end # 0 \/ j < st.next \/ s[j] # SQ THEN st
    ELSE IF j + 1 <= Len(s) /\ s[j + 1] = SQ
    THEN [st EXCEPT !.lastPair = j, !.next = j + 2]
    ELSE [st EXCEPT !.end = j]

literalResult(st) == IF st.end # 0 THEN st.end ELSE st.lastPair

\* The closing quote of the literal whose body starts at j; 0: no literal
literalEnd(s, j) ==
    literalResult(FoldRange(LAMBDA st, k : literalStep(s, st, k),
                            [end |-> 0, lastPair |-> 0, next |-> j], j, Len(s)))

\* A replacement scan: the output so far and the first token not consumed yet
Replaced(out, next) == [out |-> out, next |-> next]

replaceUpTo(st, i, last, with, keep) ==
    IF last # 0 THEN Replaced(st.out \o with, last + 1)
    ELSE Replaced(Append(st.out, keep), i + 1)

replaceLiteralsStep(s, placeholder, st, i) ==
    IF i < st.next THEN st
    ELSE IF s[i] = SQ THEN replaceUpTo(st, i, literalEnd(s, i + 1), placeholder, SQ)
    ELSE Replaced(Append(st.out, s[i]), i + 1)

replaceLiterals(s, placeholder) ==
    FoldRange(LAMBDA st, i : replaceLiteralsStep(s, placeholder, st, i),
              Replaced(<<>>, 1), 1, Len(s)).out

\* s.replace(/\/\*[\s\S]*?\*\//g, ' '): each block comment becomes a space
blockEnd(s, j) ==
    IF \E k \in j..Len(s) : s[k] = "*/"
    THEN CHOOSE k \in j..Len(s) : s[k] = "*/" /\ \A m \in j..(k - 1) : s[m] # "*/"
    ELSE 0

replaceBlockCommentsStep(s, st, i) ==
    IF i < st.next THEN st
    ELSE IF s[i] = "/*" THEN replaceUpTo(st, i, blockEnd(s, i + 1), <<SP>>, "/*")
    ELSE Replaced(Append(st.out, s[i]), i + 1)

replaceBlockComments(s) ==
    FoldRange(LAMBDA st, i : replaceBlockCommentsStep(s, st, i),
              Replaced(<<>>, 1), 1, Len(s)).out

\* s.replace(/--.*$/gm, ''): each line loses its comment
removeLineCommentsStep(s, st, i) ==
    IF s[i] = NL THEN [out |-> Append(st.out, NL), inComment |-> FALSE]
    ELSE IF st.inComment \/ s[i] = DASHES THEN [st EXCEPT !.inComment = TRUE]
    ELSE [st EXCEPT !.out = Append(@, s[i])]

removeLineComments(s) ==
    FoldRange(LAMBDA st, i : removeLineCommentsStep(s, st, i),
              [out |-> <<>>, inComment |-> FALSE], 1, Len(s)).out

----------------------------------------------------------------------------
(* Statement splitter of the rollback generator                            *)

\* The variables of the loop: the statements pushed so far, the text of the
\* statement being read, the string flag, and the first index the loop has
\* not consumed yet (the i++ after a doubled quote consumes two).
SplitState(stmts, current, inString, next) ==
    [statements |-> stmts, current |-> current, inString |-> inString, next |-> next]

\* pushTrimmed without the test of the trimmed text: an empty piece is pushed
\* as an empty statement.
pushEvenIfEmpty(stmts, current) == Append(stmts, trim(current))

\* statements.push(trimmed) when trimmed is not empty
pushTrimmed(stmts, current) ==
    IF trim(current) # <<>> THEN Append(stmts, trim(current)) ELSE stmts

\* splitStep with the string state ignored at a semicolon: every `;` splits.
splitStepNoSemiCheck(text, st, i) ==
    IF i < st.next THEN st
    ELSE IF text[i] = SEMI
    THEN [st EXCEPT !.statements = pushTrimmed(@, st.current), !.current = <<>>]
    ELSE [st EXCEPT !.current = Append(@, text[i]),
                    !.inString = IF text[i] = SQ THEN ~@ ELSE @]

\* One iteration of the for loop, at index i (1-based)
splitStep(text, st, i) ==
    IF i < st.next THEN st
    ELSE IF text[i] = SQ /\ ~st.inString
    THEN [st EXCEPT !.inString = TRUE, !.current = Append(@, text[i])]
    ELSE IF text[i] = SQ /\ st.inString
    THEN IF i + 1 <= Len(text) /\ text[i + 1] = SQ
         THEN [st EXCEPT !.current = @ \o <<SQ, SQ>>, !.next = i + 2]
         ELSE [st EXCEPT !.inString = FALSE, !.current = Append(@, text[i])]
    ELSE IF text[i] = SEMI /\ ~st.inString
    THEN [st EXCEPT !.statements = pushTrimmed(@, st.current), !.current = <<>>]
    ELSE [st EXCEPT !.current = Append(@, text[i])]

\* The push after the loop
splitResult(st) == pushTrimmed(st.statements, st.current)

\* The for loop over the characters of the text
splitLoop(text) ==
    FoldRange(LAMBDA st, i : splitStep(text, st, i),
              SplitState(<<>>, <<>>, FALSE, 1), 1, Len(text))

splitStatements(text) == splitResult(splitLoop(text))

----------------------------------------------------------------------------
(* Rollback generator                                                      *)

\* Words joined by single spaces: the fixed text of a template literal.
RECURSIVE Sp(_)
Sp(ws) ==
    IF ws = <<>> THEN <<>>
    ELSE IF Len(ws) = 1 THEN ws
    ELSE <<Head(ws), SP>> \o Sp(Tail(ws))

\* stmt.includes(needle) on token sequences
Includes(s, needle) ==
    \E i \in 1..(Len(s) - Len(needle) + 1) :
        SubSeq(s, i, i + Len(needle) - 1) = needle

stripComments(text) == removeLineComments(replaceBlockComments(text))

NotDQ(t) == t # DQ

extractIdent(s) ==
    LET trimmed == trim(s) IN
    IF trimmed # <<>> /\ Head(trimmed) = DQ /\ trimmed[Len(trimmed)] = DQ
    THEN trimmed
    ELSE FilterSeq(NotDQ, trimmed)

\* ("?\w+"?(?:\."?\w+"?)?) and ("?\w+"?) as capture group n
QualifiedName(n) ==
    Grp(n, <<OptQ, Word, OptQ, Opt(<<Tok("."), OptQ, Word, OptQ>>)>>)
SimpleName(n) == Grp(n, <<OptQ, Word, OptQ>>)

IfNotExists == Opt(<<Lit("IF"), Ws1, Lit("NOT"), Ws1, Lit("EXISTS"), Ws1>>)
IfExists == Opt(<<Lit("IF"), Ws1, Lit("EXISTS"), Ws1>>)
AlterTableHead == <<Lit("ALTER"), Ws1, Lit("TABLE"), Ws1, QualifiedName(1), Ws1>>
AlterColumnHead ==
    AlterTableHead \o <<Lit("ALTER"), Ws1, Lit("COLUMN"), Ws1, SimpleName(2), Ws1>>

createTableRe ==
    <<Lit("CREATE"), Ws1, Lit("TABLE"), Ws1, IfNotExists, QualifiedName(1),
      Ws0, Tok("(")>>
dropTableRe ==
    <<Lit("DROP"), Ws1, Lit("TABLE"), Ws1, IfExists, QualifiedName(1)>>
addColumnRe ==
    AlterTableHead \o
    <<Lit("ADD"), Ws1, Opt(<<Lit("COLUMN"), Ws1>>), IfNotExists, SimpleName(2), Ws1>>
dropColumnRe ==
    AlterTableHead \o <<Lit("DROP"), Ws1, Lit("COLUMN"), Ws1, IfExists, SimpleName(2)>>
renameColRe ==
    AlterTableHead \o
    <<Lit("RENAME"), Ws1, Lit("COLUMN"), Ws1, SimpleName(2), Ws1, Lit("TO"), Ws1,
      SimpleName(3)>>
renameTableRe ==
    AlterTableHead \o <<Lit("RENAME"), Ws1, Lit("TO"), Ws1, SimpleName(2)>>
alterTypeRe ==
    AlterColumnHead \o
    <<Opt(<<Lit("SET"), Ws1, Lit("DATA"), Ws1>>), Lit("TYPE"), Ws1, Grp(3, <<Word>>)>>
setNotNullRe == AlterColumnHead \o <<Lit("SET"), Ws1, Lit("NOT"), Ws1, Lit("NULL")>>
dropNotNullRe == AlterColumnHead \o <<Lit("DROP"), Ws1, Lit("NOT"), Ws1, Lit("NULL")>>
setDefaultRe == AlterColumnHead \o <<Lit("SET"), Ws1, Lit("DEFAULT")>>
dropDefaultRe == AlterColumnHead \o <<Lit("DROP"), Ws1, Lit("DEFAULT")>>
addFkRe ==
    AlterTableHead \o <<Lit("ADD"), Ws1, Lit("CONSTRAINT"), Ws1, SimpleName(2)>>
dropConstraintRe ==
    AlterTableHead \o
    <<Lit("DROP"), Ws1, Lit("CONSTRAINT"), Ws1, IfExists, SimpleName(2)>>
createIndexRe ==
    <<Lit("CREATE"), Ws1, Opt(<<Lit("UNIQUE"), Ws1>>), Lit("INDEX"), Ws1,
      Opt(<<Lit("CONCURRENTLY"), Ws1>>), IfNotExists, SimpleName(1), Ws1, Lit("ON")>>
dropIndexRe ==
    <<Lit("DROP"), Ws1, Lit("INDEX"), Ws1, Opt(<<Lit("CONCURRENTLY"), Ws1>>),
      IfExists, SimpleName(1)>>
createEnumRe ==
    <<Lit("CREATE"), Ws1, Lit("TYPE"), Ws1, QualifiedName(1), Ws1, Lit("AS"), Ws1,
      Lit("ENUM")>>
createViewRe ==
    <<Lit("CREATE"), Ws1, Opt(<<Lit("OR"), Ws1, Lit("REPLACE"), Ws1>>), Lit("VIEW"),
      Ws1, QualifiedName(1), Ws1, Lit("AS")>>
dropViewRe ==
    <<Lit("DROP"), Ws1, Lit("VIEW"), Ws1, IfExists, QualifiedName(1)>>

Todo == <<DASHES, SP, "TODO", ":", SP>>

ParsedStatement(type, original, rollback) ==
    [type |-> type, original |-> original, rollback |-> rollback]

\* No return from a pattern that does not match
NoParse == ParsedStatement("", <<>>, <<>>)

\* (the placeholder with the statement appended as it is)
fallbackRollbackUnprefixed(stmt) ==
    Todo \o Sp(<<"Manually", "write", "rollback", "for">>) \o <<":", NL, DASHES, SP>>
         \o stmt

\* '-- TODO: Manually write rollback for:\n-- ' + stmt.split('\n').join('\n-- ')
fallbackRollback(stmt) ==
    Todo \o Sp(<<"Manually", "write", "rollback", "for">>) \o <<":", NL, DASHES, SP>>
         \o Join(splitLines(stmt), <<NL, DASHES, SP>>)

\* The list of patterns of generateRollbackForStatement in the order of the
\* code: its k-th early return as pattern k.
rollbackOfPattern(k, stmt, cleaned) ==
    LET upper == MapSeq(toUpperCase, cleaned)
        m == MatchStart(CASE k = 1 -> createTableRe [] k = 2 -> dropTableRe
                          [] k = 3 -> addColumnRe [] k = 4 -> dropColumnRe
                          [] k = 5 -> renameColRe [] k = 6 -> renameTableRe
                          [] k = 7 -> alterTypeRe [] k = 8 -> setNotNullRe
                          [] k = 9 -> dropNotNullRe [] k = 10 -> setDefaultRe
                          [] k = 11 -> dropDefaultRe [] k = 12 -> addFkRe
                          [] k = 13 -> dropConstraintRe [] k = 14 -> createIndexRe
                          [] k = 15 -> dropIndexRe [] k = 16 -> createEnumRe
                          [] k = 17 -> createViewRe [] k = 18 -> dropViewRe,
                        cleaned)
        g1 == extractIdent(Group(m, cleaned, 1))
        g2 == extractIdent(Group(m, cleaned, 2))
        g3 == extractIdent(Group(m, cleaned, 3))
        alterTable == <<"ALTER", SP, "TABLE", SP>>
    IN
    IF m.pos = 0 THEN NoParse
    ELSE
    CASE k = 1 ->
           ParsedStatement("CREATE TABLE", stmt,
               Sp(<<"DROP", "TABLE", "IF", "EXISTS">>) \o <<SP>> \o g1
                 \o <<SP, "CASCADE", SEMI>>)
      [] k = 2 ->
           ParsedStatement("DROP TABLE", stmt,
               Todo \o Sp(<<"Recreate", "table">>) \o <<SP>> \o g1 \o <<SP, "(">>
                 \o Sp(<<"original", "definition", "needed">>) \o <<")">>)
      [] k = 3 ->
           IF Includes(upper, <<"ADD">>) /\ ~Includes(upper, <<"ADD", SP, "CONSTRAINT">>)
           THEN ParsedStatement("ADD COLUMN", stmt,
                    alterTable \o g1 \o <<SP>>
                      \o Sp(<<"DROP", "COLUMN", "IF", "EXISTS">>) \o <<SP>> \o g2
                      \o <<SEMI>>)
           ELSE NoParse
      [] k = 4 ->
           ParsedStatement("DROP COLUMN", stmt,
               Todo \o <<"Re", "-", "add", SP, "column", SP>> \o g2 \o <<SP, "to", SP>>
                 \o g1 \o <<SP, "(">> \o Sp(<<"original", "type", "needed">>)
                 \o <<")">>)
      [] k = 5 ->
           ParsedStatement("RENAME COLUMN", stmt,
               alterTable \o g1 \o <<SP, "RENAME", SP, "COLUMN", SP>> \o g3
                 \o <<SP, "TO", SP>> \o g2 \o <<SEMI>>)
      [] k = 6 ->
           ParsedStatement("RENAME TABLE", stmt,
               alterTable \o g2 \o <<SP, "RENAME", SP, "TO", SP>> \o g1 \o <<SEMI>>)
      [] k = 7 ->
           ParsedStatement("ALTER COLUMN TYPE", stmt,
               Todo \o alterTable \o g1 \o <<SP, "ALTER", SP, "COLUMN", SP>> \o g2
                 \o <<SP, "TYPE", SP, "<", "original_type", ">", SEMI>>)
      [] k = 8 ->
           ParsedStatement("SET NOT NULL", stmt,
               alterTable \o g1 \o <<SP, "ALTER", SP, "COLUMN", SP>> \o g2 \o <<SP>>
                 \o Sp(<<"DROP", "NOT", "NULL">>) \o <<SEMI>>)
      [] k = 9 ->
           ParsedStatement("DROP NOT NULL", stmt,
               alterTable \o g1 \o <<SP, "ALTER", SP, "COLUMN", SP>> \o g2 \o <<SP>>
                 \o Sp(<<"SET", "NOT", "NULL">>) \o <<SEMI>>)
      [] k = 10 ->
           ParsedStatement("SET DEFAULT", stmt,
               alterTable \o g1 \o <<SP, "ALTER", SP, "COLUMN", SP>> \o g2 \o <<SP>>
                 \o Sp(<<"DROP", "DEFAULT">>) \o <<SEMI>>)
      [] k = 11 ->
           ParsedStatement("DROP DEFAULT", stmt,
               Todo \o alterTable \o g1 \o <<SP, "ALTER", SP, "COLUMN", SP>> \o g2
                 \o <<SP, "SET", SP, "DEFAULT", SP, "<", "original_default", ">", SEMI>>)
      [] k = 12 ->
           ParsedStatement("ADD CONSTRAINT", stmt,
               alterTable \o g1 \o <<SP>>
                 \o Sp(<<"DROP", "CONSTRAINT", "IF", "EXISTS">>) \o <<SP>> \o g2
                 \o <<SEMI>>)
      [] k = 13 ->
           ParsedStatement("DROP CONSTRAINT", stmt,
               Todo \o <<"Re", "-", "add", SP, "constraint", SP>> \o g2
                 \o <<SP, "on", SP>> \o g1 \o <<SP, "(">>
                 \o Sp(<<"original", "definition", "needed">>) \o <<")">>)
      [] k = 14 ->
           ParsedStatement("CREATE INDEX", stmt,
               Sp(<<"DROP", "INDEX", "IF", "EXISTS">>) \o <<SP>> \o g1 \o <<SEMI>>)
      [] k = 15 ->
           ParsedStatement("DROP INDEX", stmt,
               Todo \o Sp(<<"Recreate", "index">>) \o <<SP>> \o g1 \o <<SP, "(">>
                 \o Sp(<<"original", "definition", "needed">>) \o <<")">>)
      [] k = 16 ->
           ParsedStatement("CREATE TYPE", stmt,
               Sp(<<"DROP", "TYPE", "IF", "EXISTS">>) \o <<SP>> \o g1 \o <<SEMI>>)
      [] k = 17 ->
           ParsedStatement("CREATE VIEW", stmt,
               Sp(<<"DROP", "VIEW", "IF", "EXISTS">>) \o <<SP>> \o g1 \o <<SEMI>>)
      [] k = 18 ->
           ParsedStatement("DROP VIEW", stmt,
               Todo \o Sp(<<"Recreate", "view">>) \o <<SP>> \o g1 \o <<SP, "(">>
                 \o Sp(<<"original", "definition", "needed">>) \o <<")">>)

NumRollbackPatterns == 18

\* The first pattern from k on that returns, else the fallback.
RECURSIVE firstRollback(_, _, _)
firstRollback(k, stmt, cleaned) ==
    IF k > NumRollbackPatterns
    THEN ParsedStatement("UNKNOWN", stmt, fallbackRollback(stmt))
    ELSE LET r == rollbackOfPattern(k, stmt, cleaned) IN
         IF r.type # "" THEN r ELSE firstRollback(k + 1, stmt, cleaned)

generateRollbackForStatement(stmt) == firstRollback(1, stmt, trim(stripComments(stmt)))

rollbackHeader ==
    <<DASHES, SP, "Auto", "-", "generated", SP, "rollback", SP, "SQL", NL,
      DASHES, SP>> \o Sp(<<"Review", "carefully", "before", "executing">>) \o <<NL>>

HasRollback(p) == p.rollback # <<>>
RollbackOf(p) == p.rollback

\* statements.map(generateRollbackForStatement).filter(p => p.rollback),
\* reversed
\* (a variant that forgets to reverse)
parsedRollbacksInUpOrder(upSql) ==
    FilterSeq(HasRollback, MapSeq(generateRollbackForStatement, splitStatements(upSql)))

parsedRollbacks(upSql) ==
    Reverse(FilterSeq(HasRollback,
                      MapSeq(generateRollbackForStatement, splitStatements(upSql))))

generateRollbackSql(upSql) ==
    IF trim(upSql) = <<>> THEN <<>>
    ELSE rollbackHeader \o Join(MapSeq(RollbackOf, parsedRollbacks(upSql)), <<NL, NL>>)

----------------------------------------------------------------------------
(* Line-tracking scanner of analyzeDryRun                                  *)

\* line.replace(/--.*$/, ''): the line up to its first comment opener
RECURSIVE stripLineComment(_)
stripLineComment(line) ==
    IF line = <<>> \/ Head(line) = DASHES THEN <<>>
    ELSE <<Head(line)>> \o stripLineComment(Tail(line))

\* The state of the scan: the statement being accumulated, the line it
\* started on, the string flag, and the (statement, line) pairs handed to
\* parseStatement so far.
ScanState(cur, start, ins, acc) ==
    [currentStmt |-> cur, stmtStartLine |-> start, inString |-> ins, found |-> acc]

\* scanChar without the reset of the start line at a semicolon
scanCharKeepingStartLine(line, i, st, j) ==
    IF line[j] = SQ /\ ~st.inString
    THEN [st EXCEPT !.inString = TRUE, !.currentStmt = Append(@, line[j])]
    ELSE IF line[j] = SQ /\ st.inString
    THEN [st EXCEPT !.inString = FALSE, !.currentStmt = Append(@, line[j])]
    ELSE IF line[j] = SEMI /\ ~st.inString
    THEN [st EXCEPT !.currentStmt = <<>>,
                    !.found = IF trim(st.currentStmt) # <<>>
                              THEN Append(@, [text |-> trim(st.currentStmt),
                                              line |-> st.stmtStartLine])
                              ELSE @]
    ELSE [st EXCEPT !.currentStmt = Append(@, line[j])]

\* The inner loop over the characters of one stripped line (line index i,
\* 0-based as in the code).
scanChar(line, i, st, j) ==
    IF line[j] = SQ /\ ~st.inString
    THEN [st EXCEPT !.inString = TRUE, !.currentStmt = Append(@, line[j])]
    ELSE IF line[j] = SQ /\ st.inString
    THEN [st EXCEPT !.inString = FALSE, !.currentStmt = Append(@, line[j])]
    ELSE IF line[j] = SEMI /\ ~st.inString
    THEN [st EXCEPT !.currentStmt = <<>>,
                    !.stmtStartLine = i + 1,
                    !.found = IF trim(st.currentStmt) # <<>>
                              THEN Append(@, [text |-> trim(st.currentStmt),
                                              line |-> st.stmtStartLine])
                              ELSE @]
    ELSE [st EXCEPT !.currentStmt = Append(@, line[j])]

scanChars(line, i, st) ==
    [FoldRange(LAMBDA s, j : scanChar(line, i, s, j), st, 1, Len(line))
       EXCEPT !.currentStmt = Append(@, SP)]

\* One iteration of the outer loop: the stripped line of index i (0-based),
\* skipped when it is empty
scanStrippedLine(line, i, st) ==
    IF line = <<>> THEN st
    ELSE scanChars(line, i,
             IF trim(st.currentStmt) = <<>>
             THEN [st EXCEPT !.stmtStartLine = i + 1] ELSE st)

scanLine(lines, st, i) == scanStrippedLine(trim(stripLineComment(lines[i + 1])), i, st)

\* The outer loop over the lines.
scanLines(lines, st) ==
    FoldRange(LAMBDA s, i : scanLine(lines, s, i), st, 0, Len(lines) - 1)

\* The statement left after the last line, handed over when it is not empty
scanResult(st) ==
    IF trim(st.currentStmt) # <<>>
    THEN Append(st.found, [text |-> trim(st.currentStmt), line |-> st.stmtStartLine])
    ELSE st.found

\* The (statement, start line) pairs analyzeDryRun hands to parseStatement,
\* the last statement without a semicolon included.
dryRunStatements(text) ==
    scanResult(scanLines(splitLines(text), ScanState(<<>>, 1, FALSE, <<>>)))

----------------------------------------------------------------------------
(* Dry-run analyzer                                                        *)

\* match.replace(/"/g, '').toLowerCase() of a captured "?\w+"?: one word
extractName(g) ==
    LET w == FilterSeq(NotDQ, g) IN IF w = <<>> THEN "" ELSE toLowerCase(w[1])

\* (?:\w+\.)?("?\w+"?) with the name as capture group n
SchemaAndName(n) == <<Opt(<<Word, Tok(".")>>), SimpleName(n)>>

dryCreateTableRe ==
    <<Lit("CREATE"), Ws1, Lit("TABLE"), Ws1, IfNotExists>> \o SchemaAndName(1)
dryDropTableRe ==
    <<Lit("DROP"), Ws1, Lit("TABLE"), Ws1, IfExists>> \o SchemaAndName(1)
dryAlterTableRe ==
    <<Lit("ALTER"), Ws1, Lit("TABLE"), Ws1, Opt(<<Lit("ONLY"), Ws1>>)>>
      \o SchemaAndName(1) \o <<Ws1, Grp(2, <<Any1>>)>>
dryCreateIndexRe ==
    <<Lit("CREATE"), Ws1, Opt(<<Lit("UNIQUE"), Ws1>>), Lit("INDEX"), Ws1,
      Opt(<<Lit("CONCURRENTLY"), Ws1>>), IfNotExists, SimpleName(1), Ws1, Lit("ON"),
      Ws1>> \o SchemaAndName(2)
dryDropIndexRe ==
    <<Lit("DROP"), Ws1, Lit("INDEX"), Ws1, Opt(<<Lit("CONCURRENTLY"), Ws1>>),
      IfExists, SimpleName(1)>>
dryCreateViewRe ==
    <<Lit("CREATE"), Ws1, Opt(<<Lit("OR"), Ws1, Lit("REPLACE"), Ws1>>),
      Opt(<<Lit("MATERIALIZED"), Ws1>>), Lit("VIEW"), Ws1>> \o SchemaAndName(1)
dryDropViewRe ==
    <<Lit("DROP"), Ws1, Opt(<<Lit("MATERIALIZED"), Ws1>>), Lit("VIEW"), Ws1, IfExists>>
      \o SchemaAndName(1)
dryCreateTypeRe == <<Lit("CREATE"), Ws1, Lit("TYPE"), Ws1>> \o SchemaAndName(1)
dryInsertRe == <<Lit("INSERT"), Ws1, Lit("INTO"), Ws1>> \o SchemaAndName(1)
dryUpdateRe == <<Lit("UPDATE"), Ws1>> \o SchemaAndName(1) \o <<Ws1, Lit("SET")>>
dryDeleteRe == <<Lit("DELETE"), Ws1, Lit("FROM"), Ws1>> \o SchemaAndName(1)

DryRunOperation(type, target, detail, line, reversible) ==
    [type |-> type, target |-> target, detail |-> detail, line |-> line,
     reversible |-> reversible]

Quoted(name) == <<DQ, name, DQ>>

\* The detail text and the reversible flag of an ALTER TABLE statement on
\* `table` with action text `action`: the if / else-if chain of the code.
alterTableDetail(table, action) ==
    LET upperAction == MapSeq(toUpperCase, action)
        StartsWith(pat) == MatchStart(pat, action).pos # 0
        Has(pat) == Test(pat, upperAction)
        AlterColumn == <<Lit("ALTER"), Ws1, Lit("COLUMN"), Any0>>
        colAdd == MatchStart(<<Lit("ADD"), Ws1, Opt(<<Lit("COLUMN"), Ws1>>), IfNotExists,
                               SimpleName(1)>>, action)
        colDrop == MatchStart(<<Lit("DROP"), Ws1, Lit("COLUMN"), Ws1, IfExists,
                                SimpleName(1)>>, action)
        ColName(m) == IF m.pos # 0 THEN extractName(Group(m, action, 1)) ELSE "?"
        InTable == <<SP, "in", SP>> \o Quoted(table)
    IN
    IF StartsWith(<<Lit("ADD"), Ws1, Lit("COLUMN")>>)
    THEN [detail |-> Sp(<<"Adds", "column">>) \o <<SP>> \o Quoted(ColName(colAdd))
                       \o <<SP, "to", SP>> \o Quoted(table),
          reversible |-> TRUE]
    ELSE IF StartsWith(<<Lit("DROP"), Ws1, Lit("COLUMN")>>)
    THEN [detail |-> Sp(<<"Drops", "column">>) \o <<SP>> \o Quoted(ColName(colDrop))
                       \o <<SP, "from", SP>> \o Quoted(table),
          reversible |-> FALSE]
    ELSE IF StartsWith(<<Lit("RENAME"), Ws1, Lit("COLUMN")>>)
    THEN [detail |-> Sp(<<"Renames", "a", "column">>) \o InTable, reversible |-> TRUE]
    ELSE IF StartsWith(<<Lit("RENAME"), Ws1, Lit("TO")>>)
    THEN [detail |-> Sp(<<"Renames", "table">>) \o <<SP>> \o Quoted(table),
          reversible |-> TRUE]
    ELSE IF StartsWith(<<Lit("ADD"), Ws1, Lit("CONSTRAINT")>>)
    THEN [detail |-> Sp(<<"Adds", "a", "constraint", "on">>) \o <<SP>> \o Quoted(table),
          reversible |-> TRUE]
    ELSE IF StartsWith(<<Lit("DROP"), Ws1, Lit("CONSTRAINT")>>)
    THEN [detail |-> Sp(<<"Drops", "a", "constraint", "from">>) \o <<SP>> \o Quoted(table),
          reversible |-> FALSE]
    ELSE IF Has(AlterColumn \o <<Lit("TYPE")>>)
    THEN [detail |-> Sp(<<"Changes", "a", "column", "type">>) \o InTable,
          reversible |-> FALSE]
    ELSE IF Has(AlterColumn \o <<Lit("SET"), Ws1, Lit("NOT"), Ws1, Lit("NULL")>>)
    THEN [detail |-> Sp(<<"Sets", "column", "NOT", "NULL">>) \o InTable,
          reversible |-> TRUE]
    ELSE IF Has(AlterColumn \o <<Lit("DROP"), Ws1, Lit("NOT"), Ws1, Lit("NULL")>>)
    THEN [detail |-> Sp(<<"Drops", "NOT", "NULL", "constraint">>) \o InTable,
          reversible |-> TRUE]
    ELSE IF Has(AlterColumn \o <<Lit("SET"), Ws1, Lit("DEFAULT")>>)
    THEN [detail |-> Sp(<<"Sets", "column", "default">>) \o InTable, reversible |-> TRUE]
    ELSE IF Has(AlterColumn \o <<Lit("DROP"), Ws1, Lit("DEFAULT")>>)
    THEN [detail |-> Sp(<<"Drops", "column", "default">>) \o InTable, reversible |-> TRUE]
    ELSE IF Has(<<Lit("ENABLE"), Ws1, Lit("ROW"), Ws1, Lit("LEVEL")>>)
    THEN [detail |-> Sp(<<"Enables", "Row", "Level", "Security", "on">>) \o <<SP>>
                       \o Quoted(table),
          reversible |-> TRUE]
    ELSE [detail |-> Sp(<<"Alters", "table">>) \o <<SP>> \o Quoted(table),
          reversible |-> TRUE]

\* No operation record (the code returns null)
NoOperation == DryRunOperation("", "", <<>>, 0, TRUE)

\* upper.startsWith('CREATE ') and the like, upper being the statement in
\* upper case with its white space collapsed
StartsWithKeyword(stmt, kw) ==
    Len(stmt) >= 2 /\ IsWord(stmt[1]) /\ toUpperCase(stmt[1]) = kw /\ IsWs(stmt[2])

parseStatement(stmt, line) ==
    LET M(pat) == MatchStart(pat, stmt)
        Name(pat, n) == extractName(Group(M(pat), stmt, n))
        hasWhere == Test(<<Lit("WHERE")>>, stmt)
        AllRows == IF hasWhere THEN <<>> ELSE <<SP, "(">> \o Sp(<<"ALL", "rows">>) \o <<")">>
    IN
    IF M(dryCreateTableRe).pos # 0
    THEN DryRunOperation("CREATE TABLE", Name(dryCreateTableRe, 1),
             Sp(<<"Creates", "table">>) \o <<SP>> \o Quoted(Name(dryCreateTableRe, 1)),
             line, TRUE)
    ELSE IF M(dryDropTableRe).pos # 0
    THEN DryRunOperation("DROP TABLE", Name(dryDropTableRe, 1),
             Sp(<<"Drops", "table">>) \o <<SP>> \o Quoted(Name(dryDropTableRe, 1))
               \o <<SP>> \o Sp(<<"and", "all", "its", "data">>),
             line, FALSE)
    ELSE IF M(dryAlterTableRe).pos # 0
    THEN LET table == Name(dryAlterTableRe, 1)
             action == trim(Group(M(dryAlterTableRe), stmt, 2))
             d == alterTableDetail(table, action)
         IN DryRunOperation("ALTER TABLE", table, d.detail, line, d.reversible)
    ELSE IF M(dryCreateIndexRe).pos # 0
    THEN DryRunOperation("CREATE INDEX", Name(dryCreateIndexRe, 1),
             Sp(<<"Creates", "index">>) \o <<SP>> \o Quoted(Name(dryCreateIndexRe, 1))
               \o <<SP, "on", SP>> \o Quoted(Name(dryCreateIndexRe, 2)),
             line, TRUE)
    ELSE IF M(dryDropIndexRe).pos # 0
    THEN DryRunOperation("DROP INDEX", Name(dryDropIndexRe, 1),
             Sp(<<"Drops", "index">>) \o <<SP>> \o Quoted(Name(dryDropIndexRe, 1)),
             line, FALSE)
    ELSE IF M(dryCreateViewRe).pos # 0
    THEN DryRunOperation("CREATE VIEW", Name(dryCreateViewRe, 1),
             Sp(<<"Creates", "view">>) \o <<SP>> \o Quoted(Name(dryCreateViewRe, 1)),
             line, TRUE)
    ELSE IF M(dryDropViewRe).pos # 0
    THEN DryRunOperation("DROP VIEW", Name(dryDropViewRe, 1),
             Sp(<<"Drops", "view">>) \o <<SP>> \o Quoted(Name(dryDropViewRe, 1)),
             line, FALSE)
    ELSE IF M(dryCreateTypeRe).pos # 0
    THEN DryRunOperation("CREATE TYPE", Name(dryCreateTypeRe, 1),
             Sp(<<"Creates", "type">>) \o <<SP>> \o Quoted(Name(dryCreateTypeRe, 1)),
             line, TRUE)
    ELSE IF M(dryInsertRe).pos # 0
    THEN DryRunOperation("INSERT", Name(dryInsertRe, 1),
             Sp(<<"Inserts", "data", "into">>) \o <<SP>> \o Quoted(Name(dryInsertRe, 1)),
             line, FALSE)
    ELSE IF M(dryUpdateRe).pos # 0
    THEN DryRunOperation("UPDATE", Name(dryUpdateRe, 1),
             Sp(<<"Updates", "rows", "in">>) \o <<SP>> \o Quoted(Name(dryUpdateRe, 1))
               \o AllRows,
             line, FALSE)
    ELSE IF M(dryDeleteRe).pos # 0
    THEN DryRunOperation("DELETE", Name(dryDeleteRe, 1),
             Sp(<<"Deletes", "rows", "from">>) \o <<SP>> \o Quoted(Name(dryDeleteRe, 1))
               \o AllRows,
             line, FALSE)
    ELSE IF \/ StartsWithKeyword(stmt, "CREATE") \/ StartsWithKeyword(stmt, "DROP")
            \/ StartsWithKeyword(stmt, "GRANT") \/ StartsWithKeyword(stmt, "REVOKE")
            \/ (stmt # <<>> /\ IsWord(stmt[1]) /\ toUpperCase(stmt[1]) = "TRUNCATE")
    \* stmt.slice(0, 60): the statements of the model are shorter than 60
    \* characters, so the detail is the whole statement
    THEN DryRunOperation("OTHER", "", stmt, line, FALSE)
    ELSE NoOperation

\* Set.prototype.add on a set kept in insertion order
AddTo(set, x) == IF \E i \in 1..Len(set) : set[i] = x THEN set ELSE Append(set, x)

\* The names of the operations of the given types, in order of first
\* appearance: what categorizeOp collects in one of its sets
RECURSIVE Collect(_, _)
Collect(ops, types) ==
    IF ops = <<>> THEN <<>>
    ELSE LET before == Collect(SubSeq(ops, 1, Len(ops) - 1), types)
             op == ops[Len(ops)]
         IN IF op.type \in types THEN AddTo(before, op.target) ELSE before

\* (calculateRisk without its first test)
calculateRiskIgnoringDrops(ops, droppedCount, dataModCount) ==
    IF \E i \in 1..Len(ops) : ops[i].type \in {"DELETE", "UPDATE"} THEN "high"
    ELSE IF \E i \in 1..Len(ops) : ~ops[i].reversible THEN "medium"
    ELSE "low"

\* (calculateRisk without its third test)
calculateRiskIgnoringReversible(ops, droppedCount, dataModCount) ==
    IF droppedCount > 0 THEN "critical"
    ELSE IF \E i \in 1..Len(ops) : ops[i].type \in {"DELETE", "UPDATE"} THEN "high"
    ELSE "low"

calculateRisk(ops, droppedCount, dataModCount) ==
    IF droppedCount > 0 THEN "critical"
    ELSE IF \E i \in 1..Len(ops) : ops[i].type \in {"DELETE", "UPDATE"} THEN "high"
    ELSE IF \E i \in 1..Len(ops) : ~ops[i].reversible THEN "medium"
    ELSE "low"

IsOperation(op) == op.type # ""

analyzeDryRun(text) ==
    LET found == IF trim(text) = <<>> THEN <<>> ELSE dryRunStatements(text)
        parsed == [i \in 1..Len(found) |-> parseStatement(found[i].text, found[i].line)]
        operations == FilterSeq(IsOperation, parsed)
        tablesDropped == Collect(operations, {"DROP TABLE"})
        dataModifications ==
            Len(FilterSeq(LAMBDA op : op.type \in {"INSERT", "UPDATE", "DELETE"}, operations))
    IN
    [called |-> TRUE,
     scanned |-> found,
     operations |-> operations,
     tablesCreated |-> Collect(operations, {"CREATE TABLE"}),
     tablesDropped |-> tablesDropped,
     tablesModified |-> Collect(operations, {"ALTER TABLE", "INSERT", "UPDATE", "DELETE"}),
     indexesCreated |-> Collect(operations, {"CREATE INDEX"}),
     indexesDropped |-> Collect(operations, {"DROP INDEX"}),
     dataModifications |-> dataModifications,
     isFullyReversible |-> \A i \in 1..Len(operations) : operations[i].reversible,
     estimatedRisk |-> calculateRisk(operations, Len(tablesDropped), dataModifications)]

----------------------------------------------------------------------------
(* SQL lint rules (analyzeSql)                                             *)

stripCommentsAndStrings(sqlText) ==
    removeLineComments(
        replaceBlockComments(replaceLiterals(sqlText, <<SQ, "__STR__", SQ>>)))

\* The number of line breaks among the first n tokens of s
LineBreaksBefore(s, n) == Cardinality({k \in 1..n : s[k] = NL})

\* The 1-based line of the first match of the pattern; 0 stands for null
lineOfMatch(sqlText, m) ==
    IF m.start = 0 THEN 0 ELSE LineBreaksBefore(sqlText, m.start - 1) + 1

findLineNumber(sqlText, pattern) == lineOfMatch(sqlText, Find(pattern, sqlText, 1))

DroppableKind ==
    Alt(<<Lit("TABLE")>>, <<Alt(<<Lit("INDEX")>>, <<Alt(<<Lit("VIEW")>>,
        <<Alt(<<Lit("SEQUENCE")>>, <<Alt(<<Lit("TYPE")>>, <<Lit("FUNCTION")>>)>>)>>)>>)>>)
AddColumnNotNull ==
    <<Lit("ADD"), Ws1, Opt(<<Lit("COLUMN"), Ws1>>), Word, Ws1, Word, NotSemi0,
      Lit("NOT"), Ws1, Lit("NULL")>>
CreateIndexHead == <<Lit("CREATE"), Ws1, Opt(<<Lit("UNIQUE"), Ws1>>), Lit("INDEX")>>
AddCheckedConstraint ==
    <<Lit("ADD"), Ws1, Lit("CONSTRAINT"), NotSemi0,
      Alt(<<Lit("FOREIGN"), Ws1, Lit("KEY")>>, <<Lit("CHECK")>>)>>
UpdateSet == <<Lit("UPDATE"), Ws1, Word, Ws1, Lit("SET")>>
DeleteFrom == <<Lit("DELETE"), Ws1, Lit("FROM"), Ws1, Word>>

\* The rules in the order of the RULES array: the id, the severity, the
\* pattern that must be found in the stripped text (it also locates the
\* line in the original text) and the pattern that must not be found.
NoPattern == <<>>
Rule(id, severity, pattern, unless) ==
    [id |-> id, severity |-> severity, pattern |-> pattern, unless |-> unless]

RULES ==
    << Rule("drop-table", "critical", <<Lit("DROP"), Ws1, Lit("TABLE")>>, NoPattern),
       Rule("drop-column", "critical", <<Lit("DROP"), Ws1, Lit("COLUMN")>>, NoPattern),
       Rule("drop-database", "critical", <<Lit("DROP"), Ws1, Lit("DATABASE")>>, NoPattern),
       Rule("truncate-table", "critical", <<Lit("TRUNCATE")>>, NoPattern),
       Rule("not-null-no-default", "high", AddColumnNotNull,
            AddColumnNotNull \o <<NotSemi0, Lit("DEFAULT")>>),
       Rule("index-not-concurrent", "medium", CreateIndexHead,
            CreateIndexHead \o <<Ws1, Lit("CONCURRENTLY")>>),
       Rule("create-no-if-not-exists", "low", <<Lit("CREATE"), Ws1, Lit("TABLE")>>,
            <<Lit("CREATE"), Ws1, Lit("TABLE"), Ws1, Lit("IF"), Ws1, Lit("NOT"), Ws1,
              Lit("EXISTS")>>),
       Rule("drop-no-if-exists", "low", <<Lit("DROP"), Ws1, DroppableKind>>,
            <<Lit("DROP"), Ws1, DroppableKind, Ws1, Lit("IF"), Ws1, Lit("EXISTS")>>),
       Rule("alter-type", "high",
            <<Lit("ALTER"), Ws1,
              Alt(<<Lit("TABLE"), Ws1, Word, Ws1, Lit("ALTER"), Ws1, Lit("COLUMN"), Ws1,
                    Word, Ws1, Opt(<<Lit("SET"), Ws1, Lit("DATA"), Ws1>>), Lit("TYPE")>>,
                  <<Lit("COLUMN"), Ws1, Word, Ws1, Lit("TYPE")>>)>>,
            NoPattern),
       Rule("rename-column", "high", <<Lit("RENAME"), Ws1, Lit("COLUMN")>>, NoPattern),
       Rule("rename-table", "high",
            <<Lit("ALTER"), Ws1, Lit("TABLE"), Ws1, Word, Ws1, Lit("RENAME"), Ws1,
              Lit("TO")>>,
            NoPattern),
       Rule("add-constraint-not-valid", "medium", AddCheckedConstraint,
            AddCheckedConstraint \o <<NotSemi0, Lit("NOT"), Ws1, Lit("VALID")>>),
       Rule("update-without-where", "medium", UpdateSet,
            UpdateSet \o <<NotSemi0, Lit("WHERE")>>),
       Rule("delete-without-where", "medium", DeleteFrom,
            DeleteFrom \o <<NotSemi0, Lit("WHERE")>>),
       Rule("grant-all", "medium", <<Lit("GRANT"), Ws1, Lit("ALL")>>, NoPattern) >>

NoIssue == [rule |-> "", severity |-> "low", line |-> 0]

\* rule.check(stripped, original); the fixed message and suggestion texts
\* of an issue are left out
check(rule, stripped, original) ==
    IF ~Test(rule.pattern, stripped) THEN NoIssue
    ELSE IF rule.unless # NoPattern /\ Test(rule.unless, stripped) THEN NoIssue
    ELSE [rule |-> rule.id, severity |-> rule.severity,
          line |-> findLineNumber(original, rule.pattern)]

IsIssue(issue) == issue.rule # ""

severityOrder == <<"low", "medium", "high", "critical">>
indexOf(order, x) == CHOOSE i \in 1..Len(order) : order[i] = x

\* (the risk of the last issue instead of the highest)
overallRiskOfLastIssue(issues, n) ==
    IF n = 0 THEN "low" ELSE issues[n].severity

\* The loop that raises overallRisk over the first n issues
RECURSIVE overallRiskOf(_, _)
overallRiskOf(issues, n) ==
    IF n = 0 THEN "low"
    ELSE LET before == overallRiskOf(issues, n - 1)
         IN IF indexOf(severityOrder, issues[n].severity) > indexOf(severityOrder, before)
            THEN issues[n].severity
            ELSE before

analyzeSql(sqlContent) ==
    LET stripped == stripCommentsAndStrings(sqlContent)
        issues == FilterSeq(IsIssue,
                            [k \in 1..Len(RULES) |-> check(RULES[k], stripped, sqlContent)])
    IN [called |-> TRUE,
        overallRisk |-> IF Len(issues) = 0 THEN "low" ELSE overallRiskOf(issues, Len(issues)),
        issues |-> issues]

----------------------------------------------------------------------------
(* Migration dependency graph                                              *)

TableRef(table, action) == [table |-> table, action |-> action]

\* (?:"?(\w+)"?\.)?("?\w+"?): an optional schema, and the name as group 2
RefName == <<Opt(<<OptQ, Word, OptQ, Tok(".")>>), SimpleName(2)>>

refCreatePattern == <<Lit("CREATE"), Ws1, Lit("TABLE"), Ws1, IfNotExists>> \o RefName
refDropPattern ==
    <<Lit("DROP"), Ws1, Lit("TABLE"), Ws1, IfExists, Grp(1, <<Any1Lazy>>),
      Alt(<<Tok(SEMI)>>, <<Alt(<<Lit("CASCADE")>>, <<Alt(<<Lit("RESTRICT")>>, <<End>>)>>)>>)>>
refAlterPattern ==
    <<Lit("ALTER"), Ws1, Lit("TABLE"), Ws1, Opt(<<Lit("ONLY"), Ws1>>)>> \o RefName
refInsertPattern == <<Lit("INSERT"), Ws1, Lit("INTO"), Ws1>> \o RefName
refUpdatePattern == <<Lit("UPDATE"), Ws1>> \o RefName \o <<Ws1, Lit("SET")>>
refDeletePattern == <<Lit("DELETE"), Ws1, Lit("FROM"), Ws1>> \o RefName
refReferencesPattern == <<Lit("REFERENCES"), Ws1>> \o RefName

\* The refs collected so far with the keys seen so far
NoRefs == [refs |-> <<>>, seen |-> {}]

\* table.toLowerCase().replace(/"/g, '') of a name of one word
normalizeTable(raw) ==
    LET w == FilterSeq(NotDQ, raw) IN IF w = <<>> THEN "" ELSE toLowerCase(w[1])

\* addRef: the key is the name as written, the stored name is normalized
addRef(acc, table, action) ==
    LET key == <<table, action>> IN
    IF key \in acc.seen THEN acc
    ELSE [refs |-> Append(acc.refs, TableRef(normalizeTable(table), action)),
          seen |-> acc.seen \cup {key}]

\* for (const m of cleaned.matchAll(pattern)) addRef(m[2], action)
RECURSIVE addMatches(_, _, _, _, _)
addMatches(acc, ms, k, cleaned, action) ==
    IF k > Len(ms) THEN acc
    ELSE addMatches(addRef(acc, Group(ms[k], cleaned, 2), action), ms, k + 1, cleaned, action)

\* m[1].split(','): the pieces of a table list
RECURSIVE splitOnComma(_, _)
splitOnComma(list, piece) ==
    IF list = <<>> THEN <<piece>>
    ELSE IF Head(list) = "," THEN <<piece>> \o splitOnComma(Tail(list), <<>>)
    ELSE splitOnComma(Tail(list), Append(piece, Head(list)))

\* t.trim().replace(/"/g, '').split(/\s+/)[0]: the text up to the first
\* white space, as the tokens it is made of
RECURSIVE UpToWhiteSpace(_)
UpToWhiteSpace(toks) ==
    IF toks = <<>> \/ IsWs(Head(toks)) THEN <<>>
    ELSE <<Head(toks)>> \o UpToWhiteSpace(Tail(toks))

droppedName(t) == UpToWhiteSpace(FilterSeq(NotDQ, trim(t)))

\* name && /^\w+$/.test(name)
IsPlainName(name) == Len(name) = 1 /\ IsWord(name[1])

RECURSIVE addDropped(_, _, _)
addDropped(acc, tableList, k) ==
    IF k > Len(tableList) THEN acc
    ELSE LET name == droppedName(tableList[k]) IN
         addDropped(IF IsPlainName(name) THEN addRef(acc, name, "drop") ELSE acc,
                    tableList, k + 1)

RECURSIVE addDropMatches(_, _, _, _)
addDropMatches(acc, ms, k, cleaned) ==
    IF k > Len(ms) THEN acc
    ELSE addDropMatches(addDropped(acc, splitOnComma(Group(ms[k], cleaned, 1), <<>>), 1),
                        ms, k + 1, cleaned)

extractTableRefs(sqlText) ==
    IF sqlText = <<>> THEN <<>>
    ELSE
      LET cleaned ==
              removeLineComments(
                  replaceBlockComments(replaceLiterals(sqlText, <<SQ, SQ>>)))
          All(pat) == MatchAll(pat, cleaned, 1)
          a1 == addMatches(NoRefs, All(refCreatePattern), 1, cleaned, "create")
          a2 == addDropMatches(a1, All(refDropPattern), 1, cleaned)
          a3 == addMatches(a2, All(refAlterPattern), 1, cleaned, "alter")
          a4 == addMatches(a3, All(refInsertPattern), 1, cleaned, "write")
          a5 == addMatches(a4, All(refUpdatePattern), 1, cleaned, "write")
          a6 == addMatches(a5, All(refDeletePattern), 1, cleaned, "write")
          a7 == addMatches(a6, All(refReferencesPattern), 1, cleaned, "read")
      IN a7.refs

\* classifyRisk without the alter/write test
classifyRiskDropsOnly(tableRefs) ==
    IF \E k \in 1..Len(tableRefs) : tableRefs[k].action = "drop" THEN "destructive"
    ELSE "safe"

classifyRisk(tableRefs) ==
    IF \E i \in 1..Len(tableRefs) : tableRefs[i].action = "drop" THEN "destructive"
    ELSE IF \E i \in 1..Len(tableRefs) : tableRefs[i].action \in {"alter", "write"}
    THEN "caution"
    ELSE "safe"

\* [...migrations].sort((a, b) => a.version - b.version): a stable sort
RECURSIVE insertByVersion(_, _)
insertByVersion(sorted, m) ==
    IF sorted = <<>> THEN <<m>>
    ELSE IF sorted[Len(sorted)].version <= m.version THEN Append(sorted, m)
    ELSE Append(insertByVersion(SubSeq(sorted, 1, Len(sorted) - 1), m), sorted[Len(sorted)])

RECURSIVE sortByVersion(_)
sortByVersion(ms) ==
    IF ms = <<>> THEN <<>>
    ELSE insertByVersion(sortByVersion(SubSeq(ms, 1, Len(ms) - 1)), ms[Len(ms)])

nodeWithTables(m, tables) ==
    [migrationId |-> m.id, version |-> m.version, description |-> m.description,
     tables |-> tables, riskLevel |-> classifyRisk(tables)]

MigrationNode(m) == nodeWithTables(m, extractTableRefs(m.sqlContent))

\* The (node index, ref index) pairs in the order of the two nested loops
\* over the nodes and their refs
RECURSIVE RefsInOrder(_, _, _)
RefsInOrder(nodes, n, r) ==
    IF n > Len(nodes) THEN <<>>
    ELSE IF r > Len(nodes[n].tables) THEN RefsInOrder(nodes, n + 1, 1)
    ELSE <<[node |-> nodes[n], ref |-> nodes[n].tables[r]]>> \o RefsInOrder(nodes, n, r + 1)

\* tableCreatorsAfter with set() not guarded by has(): the last creator wins
RECURSIVE tableCreatorsLastWins(_, _)
tableCreatorsLastWins(visits, k) ==
    IF k = 0 THEN << >>
    ELSE LET before == tableCreatorsLastWins(visits, k - 1)
             v == visits[k]
         IN IF v.ref.action = "create"
            THEN (v.ref.table :> v.node.migrationId) @@ before
            ELSE before

\* tableCreators after the first k refs: a function from the tables with a
\* creator to the id of the first migration that creates them
RECURSIVE tableCreatorsAfter(_, _)
tableCreatorsAfter(visits, k) ==
    IF k = 0 THEN << >>
    ELSE LET before == tableCreatorsAfter(visits, k - 1)
             v == visits[k]
         IN IF v.ref.action = "create" /\ v.ref.table \notin DOMAIN before
            THEN before @@ (v.ref.table :> v.node.migrationId)
            ELSE before

\* tableOwners after the first k refs: the entries of the Map in insertion
\* order, each a table with the ids pushed for it
RECURSIVE tableOwnersAfter(_, _)
tableOwnersAfter(visits, k) ==
    IF k = 0 THEN <<>>
    ELSE LET before == tableOwnersAfter(visits, k - 1)
             v == visits[k]
         IN IF \E i \in 1..Len(before) : before[i].table = v.ref.table
            THEN [i \in 1..Len(before) |->
                     IF before[i].table = v.ref.table
                     THEN [before[i] EXCEPT !.owners = Append(@, v.node.migrationId)]
                     ELSE before[i]]
            ELSE Append(before, [table |-> v.ref.table, owners |-> <<v.node.migrationId>>])

edgeTypeOf(action) ==
    IF action = "drop" THEN "drops-created"
    ELSE IF action = "read" \/ action = "create" THEN "creates-for"
    ELSE "modifies-after"

\* The edges and the edge keys after the first k refs
RECURSIVE edgesAfter(_, _, _)
edgesAfter(visits, creators, k) ==
    IF k = 0 THEN [edges |-> <<>>, edgeSet |-> {}]
    ELSE LET before == edgesAfter(visits, creators, k - 1)
             v == visits[k]
         IN IF v.ref.table \notin DOMAIN creators
               \/ creators[v.ref.table] = v.node.migrationId
            THEN before
            ELSE LET edgeKey == <<creators[v.ref.table], v.node.migrationId, v.ref.table>>
                 IN IF edgeKey \in before.edgeSet THEN before
                    ELSE [edges |-> Append(before.edges,
                                           [from |-> creators[v.ref.table],
                                            to |-> v.node.migrationId,
                                            table |-> v.ref.table,
                                            type |-> edgeTypeOf(v.ref.action)]),
                          edgeSet |-> before.edgeSet \cup {edgeKey}]

\* The graph of the nodes, given their refs in the order of the loops
graphOfVisits(nodes, visits) ==
    [called |-> TRUE,
     nodes |-> nodes,
     edges |-> edgesAfter(visits, tableCreatorsAfter(visits, Len(visits)),
                          Len(visits)).edges,
     tableOwners |-> tableOwnersAfter(visits, Len(visits))]

graphOfNodes(nodes) == graphOfVisits(nodes, RefsInOrder(nodes, 1, 1))

buildDependencyGraph(ms) == graphOfNodes(MapSeq(MigrationNode, sortByVersion(ms)))

----------------------------------------------------------------------------
(* Schema diff (diffSchemas, diffTable)                                    *)
(*                                                                         *)
(* A snapshot is a sequence of tables with distinct names, a table has     *)
(* columns with distinct names and foreign keys with distinct constraint   *)
(* names, as in a snapshot read from a database; so a Map built from them  *)
(* has one entry per element, in the order of the sequence.                *)

\* null (of columnDefault)
Null == "<null>"

HasName(list, name) == \E i \in 1..Len(list) : list[i].name = name
ByName(list, name) == list[CHOOSE i \in 1..Len(list) : list[i].name = name]
HasConstraint(fks, name) == \E i \in 1..Len(fks) : fks[i].constraintName = name

NoTableDiff == [tableName |-> ""]
IsTableDiff(d) == d.tableName # ""

\* diffTable with the foreign keys left out of the test for "no change"
diffTableIgnoringKeys(tableName, before, after) ==
    LET addedColumns ==
            FilterSeq(LAMBDA col : ~HasName(before.columns, col.name), after.columns)
        IsModified(col) ==
            /\ HasName(before.columns, col.name)
            /\ LET beforeCol == ByName(before.columns, col.name)
               IN \/ beforeCol.dataType # col.dataType
                  \/ beforeCol.isNullable # col.isNullable
                  \/ beforeCol.columnDefault # col.columnDefault
                  \/ beforeCol.isPrimaryKey # col.isPrimaryKey
        ColumnDiff(col) ==
            [columnName |-> col.name, before |-> ByName(before.columns, col.name),
             after |-> col]
        modifiedColumns == MapSeq(ColumnDiff, FilterSeq(IsModified, after.columns))
        removedColumns ==
            FilterSeq(LAMBDA col : ~HasName(after.columns, col.name), before.columns)
        addedForeignKeys ==
            FilterSeq(LAMBDA fk : ~HasConstraint(before.foreignKeys, fk.constraintName),
                      after.foreignKeys)
        removedForeignKeys ==
            FilterSeq(LAMBDA fk : ~HasConstraint(after.foreignKeys, fk.constraintName),
                      before.foreignKeys)
    IN IF /\ Len(addedColumns) = 0 /\ Len(removedColumns) = 0
          /\ Len(modifiedColumns) = 0
       THEN NoTableDiff
       ELSE [tableName |-> tableName, addedColumns |-> addedColumns,
             removedColumns |-> removedColumns, modifiedColumns |-> modifiedColumns,
             addedForeignKeys |-> addedForeignKeys,
             removedForeignKeys |-> removedForeignKeys]

diffTable(tableName, before, after) ==
    LET addedColumns ==
            FilterSeq(LAMBDA col : ~HasName(before.columns, col.name), after.columns)
        IsModified(col) ==
            /\ HasName(before.columns, col.name)
            /\ LET beforeCol == ByName(before.columns, col.name)
               IN \/ beforeCol.dataType # col.dataType
                  \/ beforeCol.isNullable # col.isNullable
                  \/ beforeCol.columnDefault # col.columnDefault
                  \/ beforeCol.isPrimaryKey # col.isPrimaryKey
        ColumnDiff(col) ==
            [columnName |-> col.name, before |-> ByName(before.columns, col.name),
             after |-> col]
        modifiedColumns == MapSeq(ColumnDiff, FilterSeq(IsModified, after.columns))
        removedColumns ==
            FilterSeq(LAMBDA col : ~HasName(after.columns, col.name), before.columns)
        addedForeignKeys ==
            FilterSeq(LAMBDA fk : ~HasConstraint(before.foreignKeys, fk.constraintName),
                      after.foreignKeys)
        removedForeignKeys ==
            FilterSeq(LAMBDA fk : ~HasConstraint(after.foreignKeys, fk.constraintName),
                      before.foreignKeys)
    IN IF /\ Len(addedColumns) = 0 /\ Len(removedColumns) = 0
          /\ Len(modifiedColumns) = 0
          /\ Len(addedForeignKeys) = 0 /\ Len(removedForeignKeys) = 0
       THEN NoTableDiff
       ELSE [tableName |-> tableName, addedColumns |-> addedColumns,
             removedColumns |-> removedColumns, modifiedColumns |-> modifiedColumns,
             addedForeignKeys |-> addedForeignKeys,
             removedForeignKeys |-> removedForeignKeys]

diffSchemas(before, after) ==
    LET DiffOf(afterTable) ==
            IF HasName(before, afterTable.name)
            THEN diffTable(afterTable.name, ByName(before, afterTable.name), afterTable)
            ELSE NoTableDiff
    IN [called |-> TRUE,
        addedTables |-> FilterSeq(LAMBDA t : ~HasName(before, t.name), after),
        removedTables |-> FilterSeq(LAMBDA t : ~HasName(after, t.name), before),
        modifiedTables |-> FilterSeq(IsTableDiff, MapSeq(DiffOf, after))]

----------------------------------------------------------------------------
(* SQL generators                                                          *)

\* /^[a-z_][a-z0-9_]*$/.test(name): the names of the model are words made
\* of letters, digits after the first character, and underscores, so the
\* test fails exactly on a name with an upper-case letter.
IsPlainIdentifier(name) == name # "" /\ toLowerCase(name) = name

ident(name) == IF IsPlainIdentifier(name) THEN <<name>> ELSE <<DQ, name, DQ>>

\* A falsy string or null
IsFalsy(x) == x = "" \/ x = Null

\* parts.join(' ')
JoinWithSpace(parts) == Join(parts, <<SP>>)

columnDefToSql(col) ==
    JoinWithSpace(<<ident(col.name), <<col.type>>>>
                    \o (IF ~col.nullable THEN <<Sp(<<"NOT", "NULL">>)>> ELSE <<>>)
                    \o (IF ~IsFalsy(col.defaultValue)
                        THEN <<<<"DEFAULT", SP, col.defaultValue>>>> ELSE <<>>))

schemaColToColumnDef(col) ==
    [name |-> col.name, type |-> toUpperCase(col.dataType), nullable |-> col.isNullable,
     defaultValue |-> IF IsFalsy(col.columnDefault) THEN "" ELSE col.columnDefault,
     isPrimaryKey |-> col.isPrimaryKey]

IsPrimaryKeyColumn(col) == col.isPrimaryKey
IdentOfColumn(col) == ident(col.name)
IndentedColumn(col) == <<SP, SP>> \o columnDefToSql(col)

generateCreateTable(cfg) ==
    IF cfg.tableName = "" \/ Len(cfg.columns) = 0 THEN <<>>
    ELSE
      LET pkCols == FilterSeq(IsPrimaryKeyColumn, cfg.columns)
          lines == MapSeq(IndentedColumn, cfg.columns)
                     \o (IF Len(pkCols) > 0
                         THEN << <<SP, SP, "PRIMARY", SP, "KEY", SP, "(">>
                                   \o Join(MapSeq(IdentOfColumn, pkCols), <<",", SP>>)
                                   \o <<")">> >>
                         ELSE <<>>)
          exists == IF cfg.ifNotExists THEN <<SP>> \o Sp(<<"IF", "NOT", "EXISTS">>) ELSE <<>>
      IN <<"CREATE", SP, "TABLE">> \o exists \o <<SP>> \o ident(cfg.tableName)
           \o <<SP, "(", NL>> \o Join(lines, <<",", NL>>) \o <<NL, ")", SEMI>>

generateDropTable(cfg) ==
    IF cfg.tableName = "" THEN <<>>
    ELSE <<"DROP", SP, "TABLE">>
           \o (IF cfg.ifExists THEN <<SP, "IF", SP, "EXISTS">> ELSE <<>>)
           \o <<SP>> \o ident(cfg.tableName)
           \o (IF cfg.cascade THEN <<SP, "CASCADE">> ELSE <<>>) \o <<SEMI>>

AlterTable(tableName) == <<"ALTER", SP, "TABLE", SP>> \o ident(tableName) \o <<SP>>
AlterColumn(tableName, columnName) ==
    AlterTable(tableName) \o <<"ALTER", SP, "COLUMN", SP>> \o ident(columnName) \o <<SP>>

generateAddColumn(cfg) ==
    IF cfg.tableName = "" \/ cfg.columnName = "" \/ cfg.type = "" THEN <<>>
    ELSE JoinWithSpace(
             << AlterTable(cfg.tableName) \o <<"ADD", SP, "COLUMN", SP>>
                  \o ident(cfg.columnName) \o <<SP, cfg.type>> >>
               \o (IF ~cfg.nullable THEN <<Sp(<<"NOT", "NULL">>)>> ELSE <<>>)
               \o (IF ~IsFalsy(cfg.defaultValue)
                   THEN <<<<"DEFAULT", SP, cfg.defaultValue>>>> ELSE <<>>))
           \o <<SEMI>>

generateDropColumn(cfg) ==
    IF cfg.tableName = "" \/ cfg.columnName = "" THEN <<>>
    ELSE AlterTable(cfg.tableName) \o <<"DROP", SP, "COLUMN">>
           \o (IF cfg.ifExists THEN <<SP, "IF", SP, "EXISTS">> ELSE <<>>)
           \o <<SP>> \o ident(cfg.columnName) \o <<SEMI>>

generateAlterColumnType(cfg) ==
    IF cfg.tableName = "" \/ cfg.columnName = "" \/ cfg.newType = "" THEN <<>>
    ELSE AlterColumn(cfg.tableName, cfg.columnName) \o <<"TYPE", SP, cfg.newType>>
           \o (IF cfg.usingExpression # "" THEN <<SP, "USING", SP, cfg.usingExpression>>
               ELSE <<>>)
           \o <<SEMI>>

\* generateAddForeignKey without the test of the referenced column
generateAddForeignKeyUnchecked(cfg) ==
    IF cfg.tableName = "" \/ cfg.columnName = "" \/ cfg.referencedTable = "" THEN <<>>
    ELSE
      AlterTable(cfg.tableName) \o <<"ADD", SP, "CONSTRAINT", SP>>
        \o ident(IF cfg.constraintName # "" THEN cfg.constraintName
                 ELSE "fk_" \o cfg.tableName \o "_" \o cfg.columnName)
        \o <<SP, "FOREIGN", SP, "KEY", SP, "(">> \o ident(cfg.columnName)
        \o <<")", SP, "REFERENCES", SP>> \o ident(cfg.referencedTable)
        \o (IF cfg.referencedColumn # ""
            THEN <<SP, "(">> \o ident(cfg.referencedColumn) \o <<")">> ELSE <<>>)
        \o (IF cfg.onDelete # "" /\ cfg.onDelete # "NO ACTION"
            THEN <<SP, "ON", SP, "DELETE", SP, cfg.onDelete>> ELSE <<>>)
        \o (IF cfg.onUpdate # "" /\ cfg.onUpdate # "NO ACTION"
            THEN <<SP, "ON", SP, "UPDATE", SP, cfg.onUpdate>> ELSE <<>>)
        \o <<SEMI>>

generateAddForeignKey(cfg) ==
    IF cfg.tableName = "" \/ cfg.columnName = "" \/ cfg.referencedTable = ""
         \/ cfg.referencedColumn = ""
    THEN <<>>
    ELSE
      LET name == IF cfg.constraintName # "" THEN cfg.constraintName
                  ELSE "fk_" \o cfg.tableName \o "_" \o cfg.columnName
      IN
      AlterTable(cfg.tableName) \o <<"ADD", SP, "CONSTRAINT", SP>> \o ident(name)
        \o <<SP, "FOREIGN", SP, "KEY", SP, "(">> \o ident(cfg.columnName)
        \o <<")", SP, "REFERENCES", SP>> \o ident(cfg.referencedTable)
        \o <<SP, "(">> \o ident(cfg.referencedColumn) \o <<")">>
        \o (IF cfg.onDelete # "" /\ cfg.onDelete # "NO ACTION"
            THEN <<SP, "ON", SP, "DELETE", SP, cfg.onDelete>> ELSE <<>>)
        \o (IF cfg.onUpdate # "" /\ cfg.onUpdate # "NO ACTION"
            THEN <<SP, "ON", SP, "UPDATE", SP, cfg.onUpdate>> ELSE <<>>)
        \o <<SEMI>>

generateDropConstraint(cfg) ==
    IF cfg.tableName = "" \/ cfg.constraintName = "" THEN <<>>
    ELSE AlterTable(cfg.tableName) \o <<"DROP", SP, "CONSTRAINT", SP>>
           \o ident(cfg.constraintName) \o <<SEMI>>

generateAddNotNull(cfg) ==
    IF cfg.tableName = "" \/ cfg.columnName = "" THEN <<>>
    ELSE Join((IF cfg.defaultValue # ""
               THEN << <<"UPDATE", SP>> \o ident(cfg.tableName) \o <<SP, "SET", SP>>
                         \o ident(cfg.columnName) \o <<SP, "=", SP, cfg.defaultValue, SP,
                                                       "WHERE", SP>>
                         \o ident(cfg.columnName) \o <<SP, "IS", SP, "NULL", SEMI>> >>
               ELSE <<>>)
                \o << AlterColumn(cfg.tableName, cfg.columnName)
                        \o <<"SET", SP, "NOT", SP, "NULL", SEMI>> >>,
              <<NL>>)

generateDropNotNull(cfg) ==
    IF cfg.tableName = "" \/ cfg.columnName = "" THEN <<>>
    ELSE AlterColumn(cfg.tableName, cfg.columnName) \o <<"DROP", SP, "NOT", SP, "NULL", SEMI>>

generateRenameTable(cfg) ==
    IF cfg.oldName = "" \/ cfg.newName = "" THEN <<>>
    ELSE AlterTable(cfg.oldName) \o <<"RENAME", SP, "TO", SP>> \o ident(cfg.newName)
           \o <<SEMI>>

generateRenameColumn(cfg) ==
    IF cfg.tableName = "" \/ cfg.oldName = "" \/ cfg.newName = "" THEN <<>>
    ELSE AlterTable(cfg.tableName) \o <<"RENAME", SP, "COLUMN", SP>> \o ident(cfg.oldName)
           \o <<SP, "TO", SP>> \o ident(cfg.newName) \o <<SEMI>>

\* names.join('_') of a list of strings, as one string
RECURSIVE joinWithUnderscore(_)
joinWithUnderscore(names) ==
    IF names = <<>> THEN ""
    ELSE IF Len(names) = 1 THEN names[1]
    ELSE names[1] \o "_" \o joinWithUnderscore(Tail(names))

generateCreateIndex(cfg) ==
    IF cfg.tableName = "" \/ Len(cfg.columns) = 0 THEN <<>>
    ELSE
      LET name == IF cfg.indexName # "" THEN cfg.indexName
                  ELSE "idx_" \o cfg.tableName \o "_" \o joinWithUnderscore(cfg.columns)
      IN
      <<"CREATE">> \o (IF cfg.unique THEN <<SP, "UNIQUE">> ELSE <<>>) \o <<SP, "INDEX">>
        \o (IF cfg.concurrently THEN <<SP, "CONCURRENTLY">> ELSE <<>>)
        \o <<SP>> \o ident(name) \o <<SP, "ON", SP>> \o ident(cfg.tableName)
        \o <<SP, "(">> \o Join(MapSeq(ident, cfg.columns), <<",", SP>>) \o <<")">>
        \o (IF cfg.where # "" THEN <<SP, "WHERE", SP, cfg.where>> ELSE <<>>)
        \o <<SEMI>>

generateDropIndex(cfg) ==
    IF cfg.indexName = "" THEN <<>>
    ELSE <<"DROP", SP, "INDEX">>
           \o (IF cfg.concurrently THEN <<SP, "CONCURRENTLY">> ELSE <<>>)
           \o (IF cfg.ifExists THEN <<SP, "IF", SP, "EXISTS">> ELSE <<>>)
           \o <<SP>> \o ident(cfg.indexName) \o <<SEMI>>

\* value.replace(/'/g, "''"): a value is a sequence of tokens
doubleQuotes(value) ==
    Flatten([k \in 1..Len(value) |-> IF value[k] = SQ THEN <<SQ, SQ>> ELSE <<value[k]>>])

literal(value) == <<SQ>> \o doubleQuotes(value) \o <<SQ>>

generateCreateEnum(cfg) ==
    IF cfg.typeName = "" \/ Len(cfg.values) = 0 THEN <<>>
    ELSE <<"CREATE", SP, "TYPE", SP>> \o ident(cfg.typeName)
           \o <<SP, "AS", SP, "ENUM", SP, "(">>
           \o Join(MapSeq(literal, cfg.values), <<",", SP>>) \o <<")", SEMI>>

generateCreateView(cfg) ==
    IF cfg.viewName = "" \/ cfg.query = "" THEN <<>>
    ELSE <<"CREATE">> \o (IF cfg.orReplace THEN <<SP, "OR", SP, "REPLACE">> ELSE <<>>)
           \o <<SP, "VIEW", SP>> \o ident(cfg.viewName) \o <<SP, "AS", NL, cfg.query, SEMI>>

generateDropView(cfg) ==
    IF cfg.viewName = "" THEN <<>>
    ELSE <<"DROP", SP, "VIEW">>
           \o (IF cfg.ifExists THEN <<SP, "IF", SP, "EXISTS">> ELSE <<>>)
           \o <<SP>> \o ident(cfg.viewName)
           \o (IF cfg.cascade THEN <<SP, "CASCADE">> ELSE <<>>) \o <<SEMI>>

\* for (const table of tables) for (const x of items(table)) push(stmt(table, x))
ForEachOf(tables, Items(_), Statement(_, _)) ==
    Flatten([i \in 1..Len(tables) |->
                 [j \in 1..Len(Items(tables[i])) |-> Statement(tables[i], Items(tables[i])[j])]])

\* Phase 1: drop removed foreign keys
dropRemovedForeignKeys(d) ==
    ForEachOf(d.modifiedTables, LAMBDA table : table.removedForeignKeys,
              LAMBDA table, fk :
                  generateDropConstraint([tableName |-> table.tableName,
                                          constraintName |-> fk.constraintName]))

\* Phase 2: drop removed columns from modified tables
dropRemovedColumns(d) ==
    ForEachOf(d.modifiedTables, LAMBDA table : table.removedColumns,
              LAMBDA table, col :
                  generateDropColumn([tableName |-> table.tableName,
                                      columnName |-> col.name, ifExists |-> FALSE]))

\* Phase 3: drop removed tables
dropRemovedTables(d) ==
    [i \in 1..Len(d.removedTables) |->
        generateDropTable([tableName |-> d.removedTables[i].name, ifExists |-> TRUE,
                           cascade |-> TRUE])]

\* Phase 4: create added tables
createAddedTables(d) ==
    [i \in 1..Len(d.addedTables) |->
        generateCreateTable([tableName |-> d.addedTables[i].name, ifNotExists |-> FALSE,
                             columns |-> MapSeq(schemaColToColumnDef,
                                                d.addedTables[i].columns)])]

\* Phase 5: add new columns to modified tables
addNewColumns(d) ==
    ForEachOf(d.modifiedTables, LAMBDA table : table.addedColumns,
              LAMBDA table, col :
                  generateAddColumn([tableName |-> table.tableName,
                                     columnName |-> col.name,
                                     type |-> toUpperCase(col.dataType),
                                     nullable |-> col.isNullable,
                                     defaultValue |-> IF IsFalsy(col.columnDefault) THEN ""
                                                      ELSE col.columnDefault]))

\* alterModifiedColumn with the default changed before the type
alterModifiedColumnDefaultFirst(table, col) ==
    (IF col.before.columnDefault # col.after.columnDefault
        THEN IF ~IsFalsy(col.after.columnDefault)
             THEN <<AlterColumn(table.tableName, col.columnName)
                      \o <<"SET", SP, "DEFAULT", SP, col.after.columnDefault, SEMI>>>>
             ELSE <<AlterColumn(table.tableName, col.columnName)
                      \o <<"DROP", SP, "DEFAULT", SEMI>>>>
        ELSE <<>>)
    \o (IF col.before.dataType # col.after.dataType
     THEN <<generateAlterColumnType([tableName |-> table.tableName,
                                     columnName |-> col.columnName,
                                     newType |-> toUpperCase(col.after.dataType),
                                     usingExpression |-> ""])>>
     ELSE <<>>)
    \o (IF col.before.isNullable # col.after.isNullable
        THEN IF col.after.isNullable
             THEN <<generateDropNotNull([tableName |-> table.tableName,
                                         columnName |-> col.columnName])>>
             ELSE <<generateAddNotNull([tableName |-> table.tableName,
                                        columnName |-> col.columnName,
                                        defaultValue |-> ""])>>
        ELSE <<>>)

\* The statements for one modified column: type, nullability, default
alterModifiedColumn(table, col) ==
    (IF col.before.dataType # col.after.dataType
     THEN <<generateAlterColumnType([tableName |-> table.tableName,
                                     columnName |-> col.columnName,
                                     newType |-> toUpperCase(col.after.dataType),
                                     usingExpression |-> ""])>>
     ELSE <<>>)
    \o (IF col.before.isNullable # col.after.isNullable
        THEN IF col.after.isNullable
             THEN <<generateDropNotNull([tableName |-> table.tableName,
                                         columnName |-> col.columnName])>>
             ELSE <<generateAddNotNull([tableName |-> table.tableName,
                                        columnName |-> col.columnName,
                                        defaultValue |-> ""])>>
        ELSE <<>>)
    \o (IF col.before.columnDefault # col.after.columnDefault
        THEN IF ~IsFalsy(col.after.columnDefault)
             THEN <<AlterColumn(table.tableName, col.columnName)
                      \o <<"SET", SP, "DEFAULT", SP, col.after.columnDefault, SEMI>>>>
             ELSE <<AlterColumn(table.tableName, col.columnName)
                      \o <<"DROP", SP, "DEFAULT", SEMI>>>>
        ELSE <<>>)

\* Phase 6: alter modified columns
alterModifiedColumns(d) ==
    Flatten(ForEachOf(d.modifiedTables, LAMBDA table : table.modifiedColumns,
                      alterModifiedColumn))

AddForeignKeyOf(tableName, fk) ==
    generateAddForeignKey([tableName |-> tableName, columnName |-> fk.columnName,
                           referencedTable |-> fk.referencedTable,
                           referencedColumn |-> fk.referencedColumn,
                           constraintName |-> fk.constraintName,
                           onDelete |-> "", onUpdate |-> ""])

\* Phase 7: add foreign keys for new tables
addForeignKeysOfNewTables(d) ==
    ForEachOf(d.addedTables, LAMBDA table : table.foreignKeys,
              LAMBDA table, fk : AddForeignKeyOf(table.name, fk))

\* Phase 8: add new foreign keys on modified tables
addNewForeignKeys(d) ==
    ForEachOf(d.modifiedTables, LAMBDA table : table.addedForeignKeys,
              LAMBDA table, fk : AddForeignKeyOf(table.tableName, fk))

\* (the statements with the new foreign keys of modified tables pushed first)
statementsOfDiffAddingKeysFirst(d) ==
    addNewForeignKeys(d) \o dropRemovedForeignKeys(d) \o dropRemovedColumns(d)
      \o dropRemovedTables(d) \o createAddedTables(d) \o addNewColumns(d)
      \o alterModifiedColumns(d) \o addForeignKeysOfNewTables(d)

\* The statements array at the end of the eight loops
statementsOfDiff(d) ==
    dropRemovedForeignKeys(d) \o dropRemovedColumns(d) \o dropRemovedTables(d)
      \o createAddedTables(d) \o addNewColumns(d) \o alterModifiedColumns(d)
      \o addForeignKeysOfNewTables(d) \o addNewForeignKeys(d)

\* statements.filter(Boolean).join('\n\n')
generateMigrationFromDiff(d) ==
    Join(FilterSeq(IsNonEmpty, statementsOfDiff(d)), <<NL, NL>>)

----------------------------------------------------------------------------
(* Inputs *)

MaxSplitLen == 4
MaxStmts == 3

\* All token sequences of length at most n over alphabet A
SeqsUpTo(A, n) == UNION {[1..m -> A] : m \in 0..n}

\* Words are maximal runs of word characters: no two words are adjacent.
IsTokenised(s) == \A i \in 1..(Len(s) - 1) : ~(IsWord(s[i]) /\ IsWord(s[i + 1]))

SplitAlphabet == {"a", SP, NL, SEMI, SQ, DASHES}
SplitInputs == {s \in SeqsUpTo(SplitAlphabet, MaxSplitLen) : IsTokenised(s)}

\* SQL statements (without their terminating semicolon), each with the
\* kind of statement it is.
Stmt(kind, toks) == [kind |-> kind, toks |-> toks]

ColList(c) == <<"(", c, ")">>

StCreateTable ==
    Stmt("create table",
         Sp(<<"CREATE", "TABLE", "t">>) \o <<SP, "(">> \o Sp(<<"id", "int">>) \o <<")">>)
StDropTable == Stmt("drop table", Sp(<<"DROP", "TABLE", "t">>))
StAddColumn ==
    Stmt("add column", Sp(<<"ALTER", "TABLE", "t", "ADD", "COLUMN", "c", "int">>))
StRenameColumn ==
    Stmt("rename column", Sp(<<"ALTER", "TABLE", "t", "RENAME", "COLUMN", "a", "TO", "b">>))
StInsert ==
    Stmt("other",
         Sp(<<"INSERT", "INTO", "t", "VALUES">>) \o <<SP, "(", SQ, "x", SEMI, "y", SQ, ")">>)
StGrant ==
    Stmt("other", <<"GRANT", SP, "ALL", NL, "ON", SP, "t", NL, NL, "TO", SP, "u">>)
StUpdate == Stmt("other", Sp(<<"UPDATE", "t", "SET", "c">>) \o <<SP, "=", SP, "0">>)

RollbackPool ==
    { StCreateTable, StDropTable, StAddColumn, StRenameColumn, StInsert, StGrant,
      StUpdate,
      Stmt("create table", Sp(<<"create", "table", "IF", "NOT", "EXISTS">>) \o <<SP, DQ, "Users", DQ, "(">> \o Sp(<<"id", "int">>) \o <<")">>),
      Stmt("drop table", Sp(<<"DROP", "TABLE", "IF", "EXISTS">>) \o <<SP, "s", ".", "t", SP, "CASCADE">>),
      Stmt("add column", Sp(<<"alter", "table", "t", "add", "c", "text", "NOT", "NULL">>)),
      Stmt("add column", <<DASHES, SP, "new", SP, "column", NL>> \o Sp(<<"ALTER", "TABLE", "t", "ADD", "COLUMN", "IF", "NOT", "EXISTS">>) \o <<SP, DQ, "c", DQ, SP, "int">>),
      Stmt("drop column", Sp(<<"ALTER", "TABLE", "t", "DROP", "COLUMN", "c">>)),
      Stmt("drop column", Sp(<<"ALTER", "TABLE", "t", "DROP", "COLUMN", "IF", "EXISTS", "c">>)),
      Stmt("rename column", <<"ALTER", NL, "TABLE", SP, DQ, "Users", DQ, SP>> \o Sp(<<"RENAME", "COLUMN", "b", "TO", "a">>)),
      Stmt("rename table", Sp(<<"ALTER", "TABLE", "t", "RENAME", "TO", "u">>)),
      Stmt("rename table", Sp(<<"ALTER", "TABLE", "u", "RENAME", "TO", "t">>)),
      Stmt("alter column type", Sp(<<"ALTER", "TABLE", "t", "ALTER", "COLUMN", "c", "TYPE", "text">>)),
      Stmt("alter column type", Sp(<<"ALTER", "TABLE", "t", "ALTER", "COLUMN", "c", "SET", "DATA", "TYPE", "text">>)),
      Stmt("set not null", Sp(<<"ALTER", "TABLE", "t", "ALTER", "COLUMN", "c", "SET", "NOT", "NULL">>)),
      Stmt("drop not null", Sp(<<"ALTER", "TABLE", "t", "ALTER", "COLUMN", "c", "DROP", "NOT", "NULL">>)),
      Stmt("set default", Sp(<<"ALTER", "TABLE", "t", "ALTER", "COLUMN", "c", "SET", "DEFAULT">>) \o <<SP, SQ, "x", SQ>>),
      Stmt("drop default", Sp(<<"ALTER", "TABLE", "t", "ALTER", "COLUMN", "c", "DROP", "DEFAULT">>)),
      Stmt("add constraint", Sp(<<"ALTER", "TABLE", "t", "ADD", "CONSTRAINT", "fk", "FOREIGN", "KEY">>) \o <<SP>> \o ColList("c") \o <<SP, "REFERENCES", SP, "u", SP>> \o ColList("id")),
      Stmt("drop constraint", Sp(<<"ALTER", "TABLE", "t", "DROP", "CONSTRAINT", "fk">>)),
      Stmt("drop constraint", Sp(<<"ALTER", "TABLE", "t", "DROP", "CONSTRAINT", "IF", "EXISTS", "fk">>)),
      Stmt("create index", Sp(<<"CREATE", "INDEX", "ix", "ON", "t">>) \o <<SP>> \o ColList("c")),
      Stmt("create index", Sp(<<"CREATE", "UNIQUE", "INDEX", "CONCURRENTLY", "ix", "ON", "t">>) \o <<SP>> \o ColList("c")),
      Stmt("drop index", Sp(<<"DROP", "INDEX", "ix">>)),
      Stmt("create type", Sp(<<"CREATE", "TYPE", "e", "AS", "ENUM">>) \o <<SP, "(", SQ, "x", SQ, ")">>),
      Stmt("create view", Sp(<<"CREATE", "VIEW", "v", "AS", "SELECT">>) \o <<SP, "*", SP>> \o Sp(<<"FROM", "t">>)),
      Stmt("create view", Sp(<<"CREATE", "OR", "REPLACE", "VIEW", "v", "AS", "SELECT">>) \o <<SP, "*", SP>> \o Sp(<<"FROM", "t">>)),
      Stmt("drop view", Sp(<<"DROP", "VIEW", "v">>)),
      Stmt("rename table", <<"ALTER", SP, "TABLE", SP, "s", ".", "t", SP>> \o Sp(<<"RENAME", "TO", "u">>)),
      Stmt("add column", Sp(<<"ALTER", "TABLE", "t", "ADD", "COLUMN", "a", "int">>) \o <<",", SP>> \o Sp(<<"DROP", "COLUMN", "b">>)),
      Stmt("add column", Sp(<<"ALTER", "TABLE", "t", "ADD", "COLUMN", "a", "int">>) \o <<",", SP>> \o Sp(<<"ALTER", "COLUMN", "b", "TYPE", "text">>)),
      Stmt("drop column", Sp(<<"ALTER", "TABLE", "t", "DROP", "COLUMN", "b">>) \o <<",", SP>> \o Sp(<<"ADD", "COLUMN", "a", "int">>)),
      Stmt("other", Sp(<<"DELETE", "FROM", "t", "WHERE", "c">>) \o <<SP, "=", SP, "0">>),
      Stmt("other", Sp(<<"TRUNCATE", "t">>)),
      Stmt("other", Sp(<<"SELECT", "1">>)),
      Stmt("other", Sp(<<"ALTER", "TABLE", "t", "ENABLE", "ROW", "LEVEL", "SECURITY">>)) }

\* The statements texts of several statements are built from.
RollbackMultiPool ==
    {StCreateTable, StDropTable, StAddColumn, StRenameColumn, StInsert, StGrant, StUpdate}

TextOf(e) == e.toks

\* The statements of ss, each terminated by a semicolon and a line break
SqlText(ss) == Flatten([i \in 1..Len(ss) |-> ss[i] \o <<SEMI, NL>>])

BlankInputs == {<<>>, <<SP>>, <<NL, SP>>}

\* Texts whose statements do not each start a line of their own: two on a
\* line, a semicolon on the line after its statement, blank and comment
\* lines before a statement, a comment after a semicolon
LayoutInputs ==
    { StDropTable.toks \o <<SEMI, SP>> \o StCreateTable.toks \o <<SEMI>>,
      StCreateTable.toks \o <<NL, SEMI>> \o StDropTable.toks \o <<SEMI, NL>>
        \o StUpdate.toks,
      <<NL, NL, DASHES, SP, "c", NL>> \o StDropTable.toks \o <<SEMI, NL, NL, SP, SP>>
        \o StCreateTable.toks,
      StDropTable.toks \o <<SEMI, SP, DASHES, SP, "c", NL, NL>> \o StUpdate.toks
        \o <<SEMI, SP>> \o StGrant.toks \o <<SEMI, NL>> \o StDropTable.toks,
      StInsert.toks \o <<SEMI, NL, SEMI, NL>> \o StDropTable.toks \o <<NL, SEMI, SP>>
        \o StAddColumn.toks }

RollbackInputs ==
    BlankInputs \cup {<<SEMI>>} \cup LayoutInputs
      \cup {SqlText(<<e.toks>>) : e \in RollbackPool}
      \cup {e.toks : e \in RollbackPool}
      \cup {SqlText(MapSeq(TextOf, ss)) :
               ss \in UNION {[1..n -> RollbackMultiPool] : n \in 2..MaxStmts}}

\* Statements for the lint rules: the forms a rule flags and the forms that
\* silence it
LintDropTable == Sp(<<"DROP", "TABLE", "t">>)
LintCreateIndex == Sp(<<"CREATE", "INDEX", "ix", "ON", "t">>) \o <<SP>> \o ColList("c")
LintCreateIndexConcurrently ==
    Sp(<<"CREATE", "INDEX", "CONCURRENTLY", "iy", "ON", "t">>) \o <<SP>> \o ColList("c")
LintGrantAll == Sp(<<"GRANT", "ALL", "ON", "t", "TO", "u">>)
LintCommentedDrop == <<DASHES, SP>> \o Sp(<<"DROP", "COLUMN", "c">>) \o <<NL>> \o Sp(<<"SELECT", "1">>)
LintCreateTable ==
    Sp(<<"CREATE", "TABLE", "IF", "NOT", "EXISTS", "t">>) \o <<SP, "(">> \o Sp(<<"id", "int">>) \o <<")">>

LintPool ==
    { LintDropTable, LintCreateIndex, LintCreateIndexConcurrently, LintGrantAll,
      LintCommentedDrop, LintCreateTable,
      Sp(<<"DROP", "DATABASE", "d">>),
      Sp(<<"ALTER", "TABLE", "t", "ADD", "COLUMN", "c", "int", "NOT", "NULL", "DEFAULT", "0">>),
      Sp(<<"ALTER", "TABLE", "t", "ADD", "CONSTRAINT", "fk", "FOREIGN", "KEY">>) \o <<SP>>
        \o ColList("c") \o <<SP, "REFERENCES", SP, "u", SP>> \o ColList("id")
        \o <<SP>> \o Sp(<<"NOT", "VALID">>),
      Sp(<<"ALTER", "TABLE", "t", "ADD", "CONSTRAINT", "ck", "CHECK">>) \o <<SP>> \o ColList("c"),
      Sp(<<"UPDATE", "t", "SET", "c">>) \o <<SP, "=", SP, "0", SP>> \o Sp(<<"WHERE", "id">>)
        \o <<SP, "=", SP, "1">>,
      Sp(<<"DELETE", "FROM", "t">>),
      Sp(<<"INSERT", "INTO", "t", "VALUES">>) \o <<SP, "(", SQ>> \o Sp(<<"DROP", "TABLE", "t">>)
        \o <<SQ, ")">>,
      <<"/*", SP>> \o Sp(<<"TRUNCATE", "t">>) \o <<SP, "*/", SP>> \o Sp(<<"SELECT", "1">>) }

LintMultiPool ==
    { LintDropTable, LintCreateIndex, LintCreateIndexConcurrently, LintGrantAll,
      LintCommentedDrop, LintCreateTable }

\* One table altered twice, its name written in two ways
RefsTwoSpellings ==
    Sp(<<"ALTER", "TABLE", "Users", "ADD", "COLUMN", "c", "int">>) \o <<SEMI, NL>>
      \o Sp(<<"ALTER", "TABLE", "users", "ADD", "COLUMN", "d", "int">>) \o <<SEMI>>
RefsQuotedAndBare ==
    Sp(<<"INSERT", "INTO", "t", "VALUES">>) \o <<SP>> \o ColList("1") \o <<SEMI, NL>>
      \o <<"DELETE", SP, "FROM", SP, DQ, "t", DQ, SEMI>>
RefsSameSpelling ==
    Sp(<<"ALTER", "TABLE", "users", "ADD", "COLUMN", "c", "int">>) \o <<SEMI, NL>>
      \o Sp(<<"ALTER", "TABLE", "users", "ADD", "COLUMN", "d", "int">>) \o <<SEMI>>
RefsDropList ==
    Sp(<<"DROP", "TABLE", "t">>) \o <<",", SP, "u", SEMI, NL>> \o Sp(<<"DROP", "TABLE", "t">>)
      \o <<SEMI>>

\* Statements with and without the clause that silences a rule, alone and
\* in all ordered pairs
LintUpdateAll == Sp(<<"UPDATE", "t", "SET", "c">>) \o <<SP, "=", SP, "0">>
LintUpdateWhere == LintUpdateAll \o <<SP>> \o Sp(<<"WHERE", "id">>) \o <<SP, "=", SP, "1">>
LintDeleteAll == Sp(<<"DELETE", "FROM", "t">>)
LintDeleteWhere == LintDeleteAll \o <<SP>> \o Sp(<<"WHERE", "id">>) \o <<SP, "=", SP, "1">>
LintAddNotNull == Sp(<<"ALTER", "TABLE", "t", "ADD", "COLUMN", "c", "int", "NOT", "NULL">>)
LintAddNotNullDefault == LintAddNotNull \o <<SP>> \o Sp(<<"DEFAULT", "0">>)
LintAddDefaultNotNull ==
    Sp(<<"ALTER", "TABLE", "t", "ADD", "COLUMN", "c", "int", "DEFAULT", "0", "NOT", "NULL">>)

LintClausePool ==
    {LintUpdateAll, LintUpdateWhere, LintDeleteAll, LintDeleteWhere, LintAddNotNull,
     LintAddNotNullDefault, LintAddDefaultNotNull}

LintClauseInputs ==
    {SqlText(<<a>>) : a \in LintClausePool}
      \cup {SqlText(<<a, b>>) : a \in LintClausePool, b \in LintClausePool}

LintInputs ==
    BlankInputs
      \cup LintPool
      \cup LintClauseInputs
      \cup {RefsTwoSpellings, RefsQuotedAndBare, RefsSameSpelling, RefsDropList}
      \cup {e.toks : e \in RollbackPool}
      \cup {SqlText(ss) : ss \in UNION {[1..n -> LintMultiPool] : n \in 2..MaxStmts}}

\* Migrations: up to MaxMigrations of them, their versions a permutation of
\* 1..n (the order of the array is not the order of the versions), their
\* SQL drawn from a pool over the tables t and u.
MaxMigrations == 3

MigrationIds == <<"m1", "m2", "m3", "m4", "m5">>

GraphCreateT == SqlText(<<StCreateTable.toks>>)
GraphAlterT == SqlText(<<StAddColumn.toks>>)
GraphDropT == SqlText(<<StDropTable.toks>>)
GraphCreateUReferencingT ==
    Sp(<<"CREATE", "TABLE", "u">>) \o <<SP, "(">>
      \o Sp(<<"id", "int", "REFERENCES", "t">>) \o <<SP>> \o ColList("id") \o <<")", SEMI>>
GraphWriteTTwice ==
    SqlText(<<StInsert.toks, StUpdate.toks, StRenameColumn.toks>>)

\* One migration that drops t and creates it again
GraphDropThenCreateT == SqlText(<<StDropTable.toks, StCreateTable.toks>>)

GraphSqlPool ==
    {GraphCreateT, GraphAlterT, GraphDropT, GraphCreateUReferencingT, GraphWriteTTwice,
     GraphDropThenCreateT}

VersionOrders(n) == {f \in [1..n -> 1..n] : \A i, j \in 1..n : f[i] = f[j] => i = j}

MigrationList(versions, texts) ==
    [i \in DOMAIN texts |-> [id |-> MigrationIds[i], version |-> versions[i],
                             description |-> MigrationIds[i],
                             sqlContent |-> texts[i]]]


\* Schema snapshots over the tables t, u, "Users" and an empty table
SchemaColumn(name, dataType, isNullable, columnDefault, isPrimaryKey) ==
    [name |-> name, dataType |-> dataType, isNullable |-> isNullable,
     columnDefault |-> columnDefault, isPrimaryKey |-> isPrimaryKey]
SchemaForeignKey(constraintName, columnName, referencedTable, referencedColumn) ==
    [constraintName |-> constraintName, columnName |-> columnName,
     referencedTable |-> referencedTable, referencedColumn |-> referencedColumn]
SchemaTable(name, columns, foreignKeys) ==
    [name |-> name, columns |-> columns, foreignKeys |-> foreignKeys]

ColId == SchemaColumn("id", "int", FALSE, Null, TRUE)
ColIdNoKey == SchemaColumn("id", "int", FALSE, Null, FALSE)
ColC == SchemaColumn("c", "int", TRUE, Null, FALSE)
ColCChanged == SchemaColumn("c", "text", FALSE, "0", FALSE)
ColD == SchemaColumn("d", "text", TRUE, "", FALSE)
ColCText == SchemaColumn("c", "text", TRUE, Null, FALSE)
ColCNotNull == SchemaColumn("c", "int", FALSE, Null, FALSE)
ColCDefault == SchemaColumn("c", "int", TRUE, "0", FALSE)
ColCNoDefault == SchemaColumn("c", "int", TRUE, "", FALSE)

TableTVariants ==
    { SchemaTable("t", <<ColId>>, <<>>),
      SchemaTable("t", <<ColIdNoKey>>, <<>>),
      SchemaTable("t", <<ColId, ColC>>, <<>>),
      SchemaTable("t", <<ColId, ColCChanged, ColD>>, <<>>),
      SchemaTable("t", <<ColId, ColCText>>, <<>>),
      SchemaTable("t", <<ColId, ColCNotNull>>, <<>>),
      SchemaTable("t", <<ColId, ColCDefault>>, <<>>),
      SchemaTable("t", <<ColIdNoKey, ColCNoDefault>>, <<>>),
      SchemaTable("t", <<ColId, ColC>>, <<SchemaForeignKey("fk_c", "c", "u", "id")>>),
      SchemaTable("t", <<ColId, ColC>>, <<SchemaForeignKey("fk_c2", "c", "Users", "id")>>) }
TableUVariants ==
    { SchemaTable("u", <<ColId>>, <<>>),
      SchemaTable("u", <<ColId, ColC>>, <<SchemaForeignKey("fk_u", "c", "t", "id")>>) }
TableUsersVariants ==
    { SchemaTable("Users", <<ColId, ColD>>, <<>>),
      SchemaTable("e", <<>>, <<>>) }

OneOrNone(variants) == {<<>>} \cup {<<v>> : v \in variants}

Snapshots ==
    { t \o u \o w : t \in OneOrNone(TableTVariants), u \in OneOrNone(TableUVariants),
                    w \in OneOrNone(TableUsersVariants) }

----------------------------------------------------------------------------
(* Specifications: each draws the input of one component and applies the   *)
(* component's functions to it, each at most once.                         *)

SplitStatements ==
    /\ ~statements.called
    /\ statements' = [called |-> TRUE, list |-> splitStatements(sql)]
    /\ UNCHANGED <<sql, down, report, lint, refs, migrations, graph, schemas,
                   diff, migrationSql,
                   config, generated, run, store>>

GenerateRollbackSql ==
    /\ ~down.called
    /\ down' = [called |-> TRUE, text |-> generateRollbackSql(sql),
                parsed |-> parsedRollbacks(sql)]
    /\ UNCHANGED <<sql, statements, report, lint, refs, migrations, graph,
                   schemas, diff, migrationSql,
                   config, generated, run, store>>

AnalyzeDryRun ==
    /\ ~report.called
    /\ report' = analyzeDryRun(sql)
    /\ UNCHANGED <<sql, statements, down, lint, refs, migrations, graph, schemas,
                   diff, migrationSql,
                   config, generated, run, store>>

\* No generator is to be called
NoConfig == [generator |-> "none"]

InitIdle ==
    /\ statements = None /\ down = None /\ report = None /\ lint = None
    /\ refs = None /\ graph = None /\ diff = None /\ migrationSql = None
    /\ generated = None /\ run = None /\ store = None

InitRollback ==
    /\ sql \in RollbackInputs
    /\ migrations = None /\ schemas = None
    /\ config = NoConfig
    /\ InitIdle

NextRollback == SplitStatements \/ GenerateRollbackSql \/ AnalyzeDryRun

SpecRollback == InitRollback /\ [][NextRollback]_vars

InitSplit ==
    /\ sql \in SplitInputs
    /\ migrations = None /\ schemas = None
    /\ config = NoConfig
    /\ InitIdle

NextSplit == SplitStatements \/ AnalyzeDryRun

SpecSplit == InitSplit /\ [][NextSplit]_vars

----------------------------------------------------------------------------
(* Properties of the rollback generator and of the two statement scanners  *)

\* C2: for UP SQL that is not blank, generateRollbackSql returns the fixed
\* two-line header followed by exactly one rollback entry per statement of
\* the splitter, the entries in reverse statement order (entry k is the
\* rollback of statement n + 1 - k); for blank UP SQL it returns the empty
\* string.
C2_HeaderThenReversedEntries ==
    down.called =>
        IF trim(sql) = <<>> THEN down.text = <<>>
        ELSE LET stmts == splitStatements(sql)
                 n == Len(stmts)
                 entries ==
                     [k \in 1..n |-> generateRollbackForStatement(stmts[n + 1 - k]).rollback]
             IN /\ \A k \in 1..n : entries[k] # <<>>
                /\ down.text = rollbackHeader \o Join(entries, <<NL, NL>>)

\* Rollback SQL was generated for UP SQL of several statements whose first
\* and last statements have different rollbacks.
C2_Witness ==
    /\ down.called
    /\ Len(down.parsed) >= 2
    /\ down.parsed[1].rollback # down.parsed[Len(down.parsed)].rollback

\* The text between two positions of a split: tokens a+1 .. b-1
Between(s, a, b) == SubSeq(s, a + 1, b - 1)

\* The number of quote characters among the first n tokens of s
QuotesBefore(s, n) == Cardinality({k \in 1..n : s[k] = SQ})

\* A position is outside every string literal when an even number of quotes
\* precedes it: a quote opens a literal, the next closes it, and a doubled
\* quote inside a literal closes and reopens it at once.
OutsideLiteral(s, i) == QuotesBefore(s, i - 1) % 2 = 0

\* The k-th smallest element of a finite set of numbers
RECURSIVE Ascending(_)
Ascending(S) ==
    IF S = {} THEN <<>>
    ELSE LET m == CHOOSE x \in S : \A y \in S : x <= y IN <<m>> \o Ascending(S \ {m})

\* The trimmed, non-empty pieces of s between the semicolons that are
\* outside every literal, in source order, the piece after the last such
\* semicolon included
PiecesOutsideLiterals(s) ==
    LET cuts == <<0>> \o Ascending({i \in 1..Len(s) : s[i] = SEMI /\ OutsideLiteral(s, i)})
                      \o <<Len(s) + 1>>
    IN FilterSeq(IsNonEmpty,
                 [k \in 1..(Len(cuts) - 1) |-> trim(Between(s, cuts[k], cuts[k + 1]))])

\* C4: the splitter splits at a `;` if and only if the `;` is outside a
\* single-quoted literal (a doubled quote keeps the scanner inside), and
\* returns the trimmed, non-empty pieces in source order, a trailing piece
\* without `;` included.
C4_SplitsOutsideLiteralsOnly ==
    statements.called => statements.list = PiecesOutsideLiterals(sql)

\* The splitter ran on a text with a semicolon inside a literal and one
\* outside.
C4_Witness ==
    /\ statements.called
    /\ \E i, j \in 1..Len(sql) :
          /\ sql[i] = SEMI /\ ~OutsideLiteral(sql, i)
          /\ sql[j] = SEMI /\ OutsideLiteral(sql, j)
    /\ Len(statements.list) >= 1

\* The positions of the semicolons of s that are outside every literal
SplittingSemis(s) == {i \in 1..Len(s) : s[i] = SEMI /\ OutsideLiteral(s, i)}

\* The text after the last splitting semicolon of s (all of s without one)
TrailingText(s) ==
    LET semis == SplittingSemis(s) \cup {0}
        last == CHOOSE i \in semis : \A j \in semis : j <= i
    IN SubSeq(s, last + 1, Len(s))

\* The text that a splitting semicolon at position i ends: from the previous
\* splitting semicolon, or the start of s, up to i
TextEndedBy(s, i) ==
    LET before == {j \in SplittingSemis(s) \cup {0} : j < i}
        prev == CHOOSE j \in before : \A k \in before : k <= j
    IN Between(s, prev, i)

\* C17 as stated: for every non-empty sql, the number of statements of
\* splitStatements(sql) is the number of semicolons outside string
\* literals, plus one if text remains after the last of them.
C17_CountsSemicolonsPlusTrailing ==
    (statements.called /\ sql # <<>>) =>
        Len(statements.list)
            = Cardinality(SplittingSemis(sql))
                + (IF trim(TrailingText(sql)) # <<>> THEN 1 ELSE 0)

\* C17: for every non-empty sql, the number of statements of
\* splitStatements(sql) is the number of semicolons outside string literals
\* that end a text which is not blank, plus one if the text after the last
\* of them is not blank.
C17_CountsNonBlankPieces ==
    (statements.called /\ sql # <<>>) =>
        Len(statements.list)
            = Cardinality({i \in SplittingSemis(sql) : trim(TextEndedBy(sql, i)) # <<>>})
                + (IF trim(TrailingText(sql)) # <<>> THEN 1 ELSE 0)

\* The splitter ran on a text with a semicolon that ends a blank text, a
\* semicolon that ends a statement, and returned that statement.
C17_Witness ==
    /\ statements.called
    /\ \E i, j \in SplittingSemis(sql) :
          /\ trim(TextEndedBy(sql, i)) = <<>>
          /\ trim(TextEndedBy(sql, j)) # <<>>
    /\ Len(statements.list) >= 1

\* A statement up to white space and `--` comments
Significant(tok) == ~IsWs(tok)
WithoutCommentsAndSpace(stmt) == FilterSeq(Significant, removeLineComments(stmt))

ScannedText(e) == e.text

\* The statements of a list up to white space and comments; a statement
\* that is nothing but a comment does not count.
Normalised(list) == FilterSeq(IsNonEmpty, MapSeq(WithoutCommentsAndSpace, list))

\* C5: the splitter of the rollback generator and the scanner of
\* analyzeDryRun find the same statements: the same number of them, with
\* the same text up to white space and `--` comments.
C5_ScannersAgree ==
    (statements.called /\ report.called) =>
        Normalised(statements.list) = Normalised(MapSeq(ScannedText, report.scanned))

----------------------------------------------------------------------------
(* Properties of the dry-run report                                        *)

\* C8: estimatedRisk is critical if the report has a dropped table,
\* otherwise high if an operation is an UPDATE or a DELETE, otherwise
\* medium if an operation is not reversible, otherwise low.
C8_EstimatedRiskLadder ==
    report.called =>
        LET ops == report.operations
            dropsTable == report.tablesDropped # <<>>
            updatesOrDeletes == \E i \in 1..Len(ops) : ops[i].type \in {"UPDATE", "DELETE"}
            irreversible == \E i \in 1..Len(ops) : ~ops[i].reversible
        IN /\ dropsTable => report.estimatedRisk = "critical"
           /\ (~dropsTable /\ updatesOrDeletes) => report.estimatedRisk = "high"
           /\ (~dropsTable /\ ~updatesOrDeletes /\ irreversible)
                 => report.estimatedRisk = "medium"
           /\ (~dropsTable /\ ~updatesOrDeletes /\ ~irreversible)
                 => report.estimatedRisk = "low"

\* A report with a dropped table and an UPDATE: the drop decides.
C8_Witness ==
    /\ report.called
    /\ report.tablesDropped # <<>>
    /\ \E i \in 1..Len(report.operations) : report.operations[i].type = "UPDATE"

\* The scanned statements that became operations, in order: the k-th is the
\* statement of the k-th operation of the report.
OperationSources(scanned) ==
    FilterSeq(LAMBDA e : IsOperation(parseStatement(e.text, e.line)), scanned)

\* An ALTER TABLE statement one of whose actions drops a column, drops a
\* constraint or changes a column type
HasLossyAction(stmt) ==
    \/ Test(<<Lit("DROP"), Ws1, Lit("COLUMN")>>, stmt)
    \/ Test(<<Lit("DROP"), Ws1, Lit("CONSTRAINT")>>, stmt)
    \/ Test(<<Lit("ALTER"), Ws1, Lit("COLUMN"), Ws1, Word, Ws1,
              Opt(<<Lit("SET"), Ws1, Lit("DATA"), Ws1>>), Lit("TYPE")>>, stmt)

\* C9: every destructive or lossy operation of a report has reversible =
\* FALSE (DROP TABLE, DROP INDEX, DROP VIEW, INSERT, UPDATE, DELETE, OTHER,
\* and an ALTER TABLE with an action that drops a column, drops a constraint
\* or changes a column type, also among several comma-separated actions);
\* every CREATE TABLE / INDEX / VIEW / TYPE has reversible = TRUE; and
\* isFullyReversible is the conjunction of the flags.
C9_ReversibleFlags ==
    report.called =>
        LET ops == report.operations
            src == OperationSources(report.scanned)
        IN /\ \A i \in 1..Len(ops) :
                /\ ops[i].type \in {"DROP TABLE", "DROP INDEX", "DROP VIEW", "INSERT",
                                      "UPDATE", "DELETE", "OTHER"} => ~ops[i].reversible
                /\ ops[i].type \in {"CREATE TABLE", "CREATE INDEX", "CREATE VIEW",
                                      "CREATE TYPE"} => ops[i].reversible
                /\ (ops[i].type = "ALTER TABLE" /\ HasLossyAction(src[i].text))
                      => ~ops[i].reversible
           /\ report.isFullyReversible = (\A i \in 1..Len(ops) : ops[i].reversible)

----------------------------------------------------------------------------
(* Properties of the per-statement rollbacks                               *)

\* A statement up to comments, white space, the terminating semicolon and
\* letter case
Canonical(stmt) ==
    MapSeq(toUpperCase,
           FilterSeq(LAMBDA tok : ~IsWs(tok) /\ tok # SEMI, stripComments(stmt)))

\* The rollback of a generated rollback statement
rollbackOfRollback(p) ==
    LET again == splitStatements(p.rollback)
    IN IF again = <<>> THEN NoParse ELSE generateRollbackForStatement(again[1])

\* C10 (its last part): the rollbacks of renames and of SET / DROP NOT NULL
\* are mutual inverses: the rollback of the rollback is the original
\* statement.
C10_RenameAndNotNullRoundTrip ==
    (down.called /\ Len(down.parsed) = 1
       /\ down.parsed[1].type \in {"RENAME COLUMN", "RENAME TABLE", "SET NOT NULL",
                                     "DROP NOT NULL"})
      => Canonical(rollbackOfRollback(down.parsed[1]).rollback)
           = Canonical(down.parsed[1].original)

----------------------------------------------------------------------------
(* Lint specification and its properties                                   *)

AnalyzeSql ==
    /\ ~lint.called
    /\ lint' = analyzeSql(sql)
    /\ UNCHANGED <<sql, statements, down, report, refs, migrations, graph, schemas,
                   diff, migrationSql,
                   config, generated, run, store>>

InitLint ==
    /\ sql \in LintInputs
    /\ migrations = None /\ schemas = None
    /\ config = NoConfig
    /\ InitIdle

ExtractTableRefs ==
    /\ ~refs.called
    /\ refs' = [called |-> TRUE, list |-> extractTableRefs(sql)]
    /\ UNCHANGED <<sql, statements, down, report, lint, migrations, graph, schemas,
                   diff, migrationSql,
                   config, generated, run, store>>

NextLint == AnalyzeSql \/ AnalyzeDryRun \/ ExtractTableRefs

SpecLint == InitLint /\ [][NextLint]_vars

RuleIndex(id) == CHOOSE k \in 1..Len(RULES) : RULES[k].id = id
SeverityRank(sev) ==
    CASE sev = "low" -> 0 [] sev = "medium" -> 1 [] sev = "high" -> 2 [] sev = "critical" -> 3

\* C6: analyzeSql returns at most one issue per rule id, the issues in the
\* order of the rule list, and overallRisk is the highest severity of the
\* issues (low < medium < high < critical), or low when there is no issue.
C6_OneIssuePerRuleInOrderAndMaxRisk ==
    lint.called =>
        LET issues == lint.issues
            n == Len(issues)
        IN /\ \A i, j \in 1..n : i < j => RuleIndex(issues[i].rule) < RuleIndex(issues[j].rule)
           /\ \A i \in 1..n : SeverityRank(issues[i].severity) <= SeverityRank(lint.overallRisk)
           /\ \/ n = 0 /\ lint.overallRisk = "low"
              \/ \E i \in 1..n : issues[i].severity = lint.overallRisk

\* An analysis whose issues end with one of lower severity than an earlier
\* one: the overall risk is not that of the last issue.
C6_Witness ==
    /\ lint.called
    /\ Len(lint.issues) >= 2
    /\ SeverityRank(lint.issues[Len(lint.issues)].severity)
          < SeverityRank(lint.issues[1].severity)

\* C7: extractTableRefs returns no two entries with the same (table,
\* action) pair, table being the normalized name: one table written with
\* different letter case or quoting yields one entry per action.
C7_NoDuplicateRefs ==
    refs.called =>
        \A i, j \in 1..Len(refs.list) :
            (refs.list[i].table = refs.list[j].table
               /\ refs.list[i].action = refs.list[j].action) => i = j

----------------------------------------------------------------------------
(* Dependency-graph specification and its properties                       *)

BuildDependencyGraph ==
    /\ ~graph.called
    /\ graph' = buildDependencyGraph(migrations)
    /\ UNCHANGED <<sql, statements, down, report, lint, refs, migrations, schemas,
                   diff, migrationSql,
                   config, generated, run, store>>

\* migrations is any list of up to MaxMigrations migrations
InitGraph ==
    /\ sql = <<>>
    /\ \E n \in 0..MaxMigrations :
          \E versions \in VersionOrders(n), texts \in [1..n -> GraphSqlPool] :
              migrations = MigrationList(versions, texts)
    /\ schemas = None
    /\ config = NoConfig
    /\ InitIdle

NextGraph == BuildDependencyGraph

SpecGraph == InitGraph /\ [][NextGraph]_vars

\* The statements of a text as the rules see it: the pieces between the
\* semicolons of the text without comments and string literals
LintStatements(sqlText) == splitStatements(stripCommentsAndStrings(sqlText))

HasKeyword(stmt, word) == \E k \in 1..Len(stmt) : IsWord(stmt[k]) /\ toUpperCase(stmt[k]) = word

HasIssue(rule, severity) ==
    \E k \in 1..Len(lint.issues) :
        lint.issues[k].rule = rule /\ lint.issues[k].severity = severity

\* C15: when at least one statement of the text is an UPDATE <table> SET
\* without a WHERE clause, analyzeSql returns an update-without-where issue
\* of severity medium, and when at least one statement is a DELETE FROM
\* <table> without a WHERE clause it returns a delete-without-where issue of
\* severity medium, whatever the other statements contain.
C15_UnboundedUpdateAndDeleteFlagged ==
    lint.called =>
        LET stmts == LintStatements(sql) IN
        /\ (\E k \in 1..Len(stmts) :
               Test(UpdateSet, stmts[k]) /\ ~HasKeyword(stmts[k], "WHERE"))
              => HasIssue("update-without-where", "medium")
        /\ (\E k \in 1..Len(stmts) :
               Test(DeleteFrom, stmts[k]) /\ ~HasKeyword(stmts[k], "WHERE"))
              => HasIssue("delete-without-where", "medium")

\* C16: analyzeSql returns a not-null-no-default issue of severity high
\* exactly when some statement of the text adds a NOT NULL column and has no
\* DEFAULT clause in that statement: a DEFAULT written before NOT NULL
\* counts, and a DEFAULT in another statement does not.
C16_NotNullWithoutDefaultFlagged ==
    lint.called =>
        LET stmts == LintStatements(sql) IN
        HasIssue("not-null-no-default", "high")
            <=> \E k \in 1..Len(stmts) :
                    Test(AddColumnNotNull, stmts[k]) /\ ~HasKeyword(stmts[k], "DEFAULT")

VersionOf(id) ==
    LET i == CHOOSE k \in 1..Len(migrations) : migrations[k].id = id
    IN migrations[i].version

\* C3: for migrations with distinct versions, every edge of the graph goes
\* from the migration that created the table to a migration of strictly
\* greater version that references the table, and no two edges have the
\* same (from, to, table).
C3_EdgesGoForwardWithoutDuplicates ==
    graph.called =>
        /\ \A k \in 1..Len(graph.edges) :
              VersionOf(graph.edges[k].from) < VersionOf(graph.edges[k].to)
        /\ \A k, l \in 1..Len(graph.edges) :
              (graph.edges[k].from = graph.edges[l].from
                 /\ graph.edges[k].to = graph.edges[l].to
                 /\ graph.edges[k].table = graph.edges[l].table) => k = l

\* The node of a migration, and the actions of its refs on a table
NodeOf(id) ==
    graph.nodes[CHOOSE k \in 1..Len(graph.nodes) : graph.nodes[k].migrationId = id]

ActionsOn(node, table) ==
    {node.tables[k].action : k \in {j \in 1..Len(node.tables) : node.tables[j].table = table}}

\* C11: the type of every edge follows the actions of its consumer on the
\* edge's table: drops-created when the consumer drops the table, otherwise
\* modifies-after when it alters or writes it, otherwise creates-for; also
\* when the consumer has several different actions on the table.
C11_EdgeTypeFollowsConsumerActions ==
    graph.called =>
        \A k \in 1..Len(graph.edges) :
            LET e == graph.edges[k]
                actions == ActionsOn(NodeOf(e.to), e.table)
            IN e.type = IF "drop" \in actions THEN "drops-created"
                        ELSE IF "alter" \in actions \/ "write" \in actions
                        THEN "modifies-after"
                        ELSE "creates-for"

\* The ids of the migrations with a create reference to a table
CreatorsOf(table) ==
    {graph.nodes[k].migrationId :
        k \in {j \in 1..Len(graph.nodes) : "create" \in ActionsOn(graph.nodes[j], table)}}

\* C12: for every input order of the migrations, the nodes are sorted by
\* ascending version, and the `from` of every edge on a table is the
\* lowest-version migration that has a create reference to the table.
C12_NodesSortedAndFirstCreatorKept ==
    graph.called =>
        /\ Len(graph.nodes) = Len(migrations)
        /\ \A k \in 1..(Len(graph.nodes) - 1) :
              graph.nodes[k].version <= graph.nodes[k + 1].version
        /\ \A k \in 1..Len(graph.edges) :
              LET e == graph.edges[k] IN
              /\ e.from \in CreatorsOf(e.table)
              /\ \A id \in CreatorsOf(e.table) : VersionOf(e.from) <= VersionOf(id)

\* An input out of version order whose graph has an edge on a table that two
\* migrations create
C12_Witness ==
    /\ graph.called
    /\ \E i \in 1..(Len(migrations) - 1) : migrations[i].version > migrations[i + 1].version
    /\ \E k \in 1..Len(graph.edges) : Cardinality(CreatorsOf(graph.edges[k].table)) >= 2

\* C13: a node's riskLevel is destructive exactly when its tables hold a drop
\* reference, caution exactly when they hold no drop but an alter or write
\* reference, and safe otherwise.
C13_RiskLevelDerivedFromRefs ==
    graph.called =>
        \A k \in 1..Len(graph.nodes) :
            LET node == graph.nodes[k]
                actions == {node.tables[j].action : j \in 1..Len(node.tables)}
            IN /\ node.riskLevel \in {"destructive", "caution", "safe"}
               /\ node.riskLevel = "destructive" <=> "drop" \in actions
               /\ node.riskLevel = "caution" <=>
                     ("drop" \notin actions /\ ({"alter", "write"} \cap actions) # {})

\* A graph whose nodes show all three risk levels
C13_Witness ==
    /\ graph.called
    /\ {graph.nodes[k].riskLevel : k \in 1..Len(graph.nodes)}
          = {"destructive", "caution", "safe"}

\* The ids of the nodes that reference a table, in the order of the nodes
RECURSIVE ReferencingIds(_, _)
ReferencingIds(table, k) ==
    IF k = 0 THEN <<>>
    ELSE IF ActionsOn(graph.nodes[k], table) # {}
    THEN Append(ReferencingIds(table, k - 1), graph.nodes[k].migrationId)
    ELSE ReferencingIds(table, k - 1)

\* C14: for every table, tableOwners lists the ids of exactly the migrations
\* that reference it, in ascending version order, each id once, also when a
\* migration has several different actions on the table.
C14_TableOwnersListEachMigrationOnce ==
    graph.called =>
        /\ \A k \in 1..Len(graph.nodes) : \A j \in 1..Len(graph.nodes[k].tables) :
              \E o \in 1..Len(graph.tableOwners) :
                  graph.tableOwners[o].table = graph.nodes[k].tables[j].table
        /\ \A o \in 1..Len(graph.tableOwners) :
              graph.tableOwners[o].owners
                  = ReferencingIds(graph.tableOwners[o].table, Len(graph.nodes))

----------------------------------------------------------------------------
(* Schema-diff specification and its properties                            *)

DiffSchemas ==
    /\ ~diff.called
    /\ diff' = diffSchemas(schemas.before, schemas.after)
    /\ UNCHANGED <<sql, statements, down, report, lint, refs, migrations, graph,
                   schemas, migrationSql,
                   config, generated, run, store>>

GenerateMigrationFromDiff ==
    /\ diff.called
    /\ ~migrationSql.called
    /\ migrationSql' = [called |-> TRUE, text |-> generateMigrationFromDiff(diff)]
    /\ UNCHANGED <<sql, statements, down, report, lint, refs, migrations, graph,
                   schemas, diff,
                   config, generated, run, store>>

InitDiff ==
    /\ sql = <<>>
    /\ migrations = None
    /\ schemas \in [before : Snapshots, after : Snapshots]
    /\ config = NoConfig
    /\ InitIdle

NextDiff == DiffSchemas \/ GenerateMigrationFromDiff

SpecDiff == InitDiff /\ [][NextDiff]_vars

\* The statements of a generated migration: the pieces between blank lines
\* (a statement neither starts nor ends with a line break)
GeneratedStatements(text) ==
    IF text = <<>> THEN <<>>
    ELSE LET blank == {i \in 1..(Len(text) - 1) : text[i] = NL /\ text[i + 1] = NL}
             cuts == <<-1>> \o Ascending(blank) \o <<Len(text) + 1>>
         IN [k \in 1..(Len(cuts) - 1) |-> SubSeq(text, cuts[k] + 2, cuts[k + 1] - 1)]

\* The table an ALTER TABLE statement is about, as the diff names it
AlteredTable(stmt) ==
    LET m == MatchStart(<<Lit("ALTER"), Ws1, Lit("TABLE"), Ws1, OptQ, Grp(1, <<Word>>)>>, stmt)
    IN IF m.pos = 0 THEN "" ELSE Group(m, stmt, 1)[1]

\* The phase a generated statement belongs to, read off its text
PhaseOf(stmt, d) ==
    LET Starts(pat) == MatchStart(pat, stmt).pos # 0
        Alter(action) == <<Lit("ALTER"), Ws1, Lit("TABLE"), Ws1, OptQ, Word, OptQ, Ws1>>
                           \o action
    IN CASE Starts(Alter(<<Lit("DROP"), Ws1, Lit("CONSTRAINT")>>)) -> 1
         [] Starts(Alter(<<Lit("DROP"), Ws1, Lit("COLUMN")>>)) -> 2
         [] Starts(<<Lit("DROP"), Ws1, Lit("TABLE")>>) -> 3
         [] Starts(<<Lit("CREATE"), Ws1, Lit("TABLE")>>) -> 4
         [] Starts(Alter(<<Lit("ADD"), Ws1, Lit("COLUMN")>>)) -> 5
         [] Starts(Alter(<<Lit("ALTER"), Ws1, Lit("COLUMN")>>)) -> 6
         [] Starts(Alter(<<Lit("ADD"), Ws1, Lit("CONSTRAINT")>>)) ->
              IF HasName(d.addedTables, AlteredTable(stmt)) THEN 7 ELSE 8
         [] OTHER -> 0

\* C1: generateMigrationFromDiff emits its statements in phase order: DROP
\* CONSTRAINT, DROP COLUMN, DROP TABLE, CREATE TABLE, ADD COLUMN, ALTER
\* COLUMN, ADD CONSTRAINT of added tables, ADD CONSTRAINT of modified
\* tables; no statement of a later phase comes before one of an earlier
\* phase.
C1_StatementsInPhaseOrder ==
    migrationSql.called =>
        LET stmts == GeneratedStatements(migrationSql.text) IN
        /\ \A i \in 1..Len(stmts) : PhaseOf(stmts[i], diff) \in 1..8
        /\ \A i, j \in 1..Len(stmts) :
              i < j => PhaseOf(stmts[i], diff) <= PhaseOf(stmts[j], diff)

\* A migration with a dropped and an added foreign key on modified tables
\* and statements of at least two phases in between.
C1_Witness ==
    /\ migrationSql.called
    /\ LET stmts == GeneratedStatements(migrationSql.text)
           phases == {PhaseOf(stmts[i], diff) : i \in 1..Len(stmts)}
       IN {1, 8} \subseteq phases /\ Cardinality(phases) >= 4

----------------------------------------------------------------------------
(* Specification of the single-statement generators and its properties     *)

\* Values of the fields of a config object: "" is a field left empty
TableNames == {"", "t", "Users"}
ColumnDefLists ==
    { <<>>,
      <<schemaColToColumnDef(ColId)>>,
      <<schemaColToColumnDef(ColId), schemaColToColumnDef(ColCChanged)>> }
ColumnNameLists == {<<>>, <<"c">>, <<"c", "d">>}
EnumValueLists == {<<>>, << <<"a">> >>, << <<"a">>, <<"it", SQ, "s">> >>}

Config(generator, cfg) == [generator |-> generator, cfg |-> cfg]

GeneratorConfigs ==
    {Config("generateCreateTable", c) :
        c \in [tableName : TableNames, ifNotExists : BOOLEAN, columns : ColumnDefLists]}
    \cup {Config("generateDropTable", c) :
        c \in [tableName : TableNames, ifExists : BOOLEAN, cascade : BOOLEAN]}
    \cup {Config("generateRenameTable", c) :
        c \in [oldName : TableNames, newName : {"", "u"}]}
    \cup {Config("generateAddColumn", c) :
        c \in [tableName : TableNames, columnName : {"", "c"}, type : {"", "INT"},
               nullable : BOOLEAN, defaultValue : {"", "0"}]}
    \cup {Config("generateDropColumn", c) :
        c \in [tableName : TableNames, columnName : {"", "c"}, ifExists : BOOLEAN]}
    \cup {Config("generateRenameColumn", c) :
        c \in [tableName : TableNames, oldName : {"", "c"}, newName : {"", "d"}]}
    \cup {Config("generateAlterColumnType", c) :
        c \in [tableName : TableNames, columnName : {"", "c"}, newType : {"", "TEXT"},
               usingExpression : {"", "c"}]}
    \cup {Config("generateAddForeignKey", c) :
        c \in [tableName : {"", "t"}, columnName : {"", "c"}, referencedTable : {"", "u"},
               referencedColumn : {"", "id"}, constraintName : {"", "fk_c"},
               onDelete : {"", "CASCADE", "NO ACTION"}, onUpdate : {"", "CASCADE"}]}
    \cup {Config("generateDropConstraint", c) :
        c \in [tableName : TableNames, constraintName : {"", "fk_c"}]}
    \cup {Config("generateAddNotNull", c) :
        c \in [tableName : TableNames, columnName : {"", "c"}, defaultValue : {"", "0"}]}
    \cup {Config("generateDropNotNull", c) :
        c \in [tableName : TableNames, columnName : {"", "c"}]}
    \cup {Config("generateCreateIndex", c) :
        c \in [tableName : TableNames, columns : ColumnNameLists, indexName : {"", "ix"},
               unique : BOOLEAN, concurrently : BOOLEAN, where : {"", "c"}]}
    \cup {Config("generateDropIndex", c) :
        c \in [indexName : {"", "ix", "Users"}, ifExists : BOOLEAN, concurrently : BOOLEAN]}
    \cup {Config("generateCreateEnum", c) :
        c \in [typeName : TableNames, values : EnumValueLists]}
    \cup {Config("generateCreateView", c) :
        c \in [viewName : TableNames, orReplace : BOOLEAN, query : {"", "SELECT"}]}
    \cup {Config("generateDropView", c) :
        c \in [viewName : TableNames, ifExists : BOOLEAN, cascade : BOOLEAN]}

\* One action per generator: it is called once with the config object
\* that was drawn for it.
GenerateCreateTable ==
    /\ config.generator = "generateCreateTable"
    /\ ~generated.called
    /\ generated' = [called |-> TRUE, text |-> generateCreateTable(config.cfg)]
    /\ UNCHANGED <<sql, statements, down, report, lint, refs, migrations, graph,
                   schemas, diff, migrationSql, config, run, store>>

GenerateDropTable ==
    /\ config.generator = "generateDropTable"
    /\ ~generated.called
    /\ generated' = [called |-> TRUE, text |-> generateDropTable(config.cfg)]
    /\ UNCHANGED <<sql, statements, down, report, lint, refs, migrations, graph,
                   schemas, diff, migrationSql, config, run, store>>

GenerateRenameTable ==
    /\ config.generator = "generateRenameTable"
    /\ ~generated.called
    /\ generated' = [called |-> TRUE, text |-> generateRenameTable(config.cfg)]
    /\ UNCHANGED <<sql, statements, down, report, lint, refs, migrations, graph,
                   schemas, diff, migrationSql, config, run, store>>

GenerateAddColumn ==
    /\ config.generator = "generateAddColumn"
    /\ ~generated.called
    /\ generated' = [called |-> TRUE, text |-> generateAddColumn(config.cfg)]
    /\ UNCHANGED <<sql, statements, down, report, lint, refs, migrations, graph,
                   schemas, diff, migrationSql, config, run, store>>

GenerateDropColumn ==
    /\ config.generator = "generateDropColumn"
    /\ ~generated.called
    /\ generated' = [called |-> TRUE, text |-> generateDropColumn(config.cfg)]
    /\ UNCHANGED <<sql, statements, down, report, lint, refs, migrations, graph,
                   schemas, diff, migrationSql, config, run, store>>

GenerateRenameColumn ==
    /\ config.generator = "generateRenameColumn"
    /\ ~generated.called
    /\ generated' = [called |-> TRUE, text |-> generateRenameColumn(config.cfg)]
    /\ UNCHANGED <<sql, statements, down, report, lint, refs, migrations, graph,
                   schemas, diff, migrationSql, config, run, store>>

GenerateAlterColumnType ==
    /\ config.generator = "generateAlterColumnType"
    /\ ~generated.called
    /\ generated' = [called |-> TRUE, text |-> generateAlterColumnType(config.cfg)]
    /\ UNCHANGED <<sql, statements, down, report, lint, refs, migrations, graph,
                   schemas, diff, migrationSql, config, run, store>>

GenerateAddForeignKey ==
    /\ config.generator = "generateAddForeignKey"
    /\ ~generated.called
    /\ generated' = [called |-> TRUE, text |-> generateAddForeignKey(config.cfg)]
    /\ UNCHANGED <<sql, statements, down, report, lint, refs, migrations, graph,
                   schemas, diff, migrationSql, config, run, store>>

GenerateDropConstraint ==
    /\ config.generator = "generateDropConstraint"
    /\ ~generated.called
    /\ generated' = [called |-> TRUE, text |-> generateDropConstraint(config.cfg)]
    /\ UNCHANGED <<sql, statements, down, report, lint, refs, migrations, graph,
                   schemas, diff, migrationSql, config, run, store>>

GenerateAddNotNull ==
    /\ config.generator = "generateAddNotNull"
    /\ ~generated.called
    /\ generated' = [called |-> TRUE, text |-> generateAddNotNull(config.cfg)]
    /\ UNCHANGED <<sql, statements, down, report, lint, refs, migrations, graph,
                   schemas, diff, migrationSql, config, run, store>>

GenerateDropNotNull ==
    /\ config.generator = "generateDropNotNull"
    /\ ~generated.called
    /\ generated' = [called |-> TRUE, text |-> generateDropNotNull(config.cfg)]
    /\ UNCHANGED <<sql, statements, down, report, lint, refs, migrations, graph,
                   schemas, diff, migrationSql, config, run, store>>

GenerateCreateIndex ==
    /\ config.generator = "generateCreateIndex"
    /\ ~generated.called
    /\ generated' = [called |-> TRUE, text |-> generateCreateIndex(config.cfg)]
    /\ UNCHANGED <<sql, statements, down, report, lint, refs, migrations, graph,
                   schemas, diff, migrationSql, config, run, store>>

GenerateDropIndex ==
    /\ config.generator = "generateDropIndex"
    /\ ~generated.called
    /\ generated' = [called |-> TRUE, text |-> generateDropIndex(config.cfg)]
    /\ UNCHANGED <<sql, statements, down, report, lint, refs, migrations, graph,
                   schemas, diff, migrationSql, config, run, store>>

GenerateCreateEnum ==
    /\ config.generator = "generateCreateEnum"
    /\ ~generated.called
    /\ generated' = [called |-> TRUE, text |-> generateCreateEnum(config.cfg)]
    /\ UNCHANGED <<sql, statements, down, report, lint, refs, migrations, graph,
                   schemas, diff, migrationSql, config, run, store>>

GenerateCreateView ==
    /\ config.generator = "generateCreateView"
    /\ ~generated.called
    /\ generated' = [called |-> TRUE, text |-> generateCreateView(config.cfg)]
    /\ UNCHANGED <<sql, statements, down, report, lint, refs, migrations, graph,
                   schemas, diff, migrationSql, config, run, store>>

GenerateDropView ==
    /\ config.generator = "generateDropView"
    /\ ~generated.called
    /\ generated' = [called |-> TRUE, text |-> generateDropView(config.cfg)]
    /\ UNCHANGED <<sql, statements, down, report, lint, refs, migrations, graph,
                   schemas, diff, migrationSql, config, run, store>>

\* Either a config object for one generator, or a pair of snapshots whose
\* diff is turned into a migration
InitGenerators ==
    /\ sql = <<>>
    /\ migrations = None
    /\ \/ /\ config \in GeneratorConfigs
          /\ schemas \in {[before |-> <<>>, after |-> <<>>],
                          [before |-> <<>>,
                           after |-> <<SchemaTable("t", <<ColId>>, <<>>),
                                       SchemaTable("e", <<>>, <<>>)>>]}
       \/ config = NoConfig /\ schemas \in [before : Snapshots, after : Snapshots]
    /\ InitIdle

NextGenerators ==
    \/ GenerateCreateTable \/ GenerateDropTable \/ GenerateRenameTable
    \/ GenerateAddColumn \/ GenerateDropColumn \/ GenerateRenameColumn
    \/ GenerateAlterColumnType \/ GenerateAddForeignKey \/ GenerateDropConstraint
    \/ GenerateAddNotNull \/ GenerateDropNotNull \/ GenerateCreateIndex
    \/ GenerateDropIndex \/ GenerateCreateEnum \/ GenerateCreateView
    \/ GenerateDropView \/ DiffSchemas \/ GenerateMigrationFromDiff

SpecGenerators == InitGenerators /\ [][NextGenerators]_vars

\* The fields a generator cannot write its statement without: names, types
\* and queries, and lists of columns or values
RequiredTexts ==
    [generateCreateTable |-> {"tableName"},
     generateDropTable |-> {"tableName"},
     generateRenameTable |-> {"oldName", "newName"},
     generateAddColumn |-> {"tableName", "columnName", "type"},
     generateDropColumn |-> {"tableName", "columnName"},
     generateRenameColumn |-> {"tableName", "oldName", "newName"},
     generateAlterColumnType |-> {"tableName", "columnName", "newType"},
     generateAddForeignKey |->
         {"tableName", "columnName", "referencedTable", "referencedColumn"},
     generateDropConstraint |-> {"tableName", "constraintName"},
     generateAddNotNull |-> {"tableName", "columnName"},
     generateDropNotNull |-> {"tableName", "columnName"},
     generateCreateIndex |-> {"tableName"},
     generateDropIndex |-> {"indexName"},
     generateCreateEnum |-> {"typeName"},
     generateCreateView |-> {"viewName", "query"},
     generateDropView |-> {"viewName"}]

RequiredLists ==
    [g \in DOMAIN RequiredTexts |->
        CASE g = "generateCreateTable" -> {"columns"}
          [] g = "generateCreateIndex" -> {"columns"}
          [] g = "generateCreateEnum" -> {"values"}
          [] OTHER -> {}]

RequiredFieldEmpty(c) ==
    \/ \E f \in RequiredTexts[c.generator] : c.cfg[f] = ""
    \/ \E f \in RequiredLists[c.generator] : c.cfg[f] = <<>>

IsEmptyDiff(d) == d.addedTables = <<>> /\ d.removedTables = <<>> /\ d.modifiedTables = <<>>

\* A text with an empty statement between separators: it starts or ends with
\* the separator, or has two separators in a row
HasEmptyStatement(text) ==
    \/ Len(text) >= 2 /\ SubSeq(text, 1, 2) = <<NL, NL>>
    \/ Len(text) >= 2 /\ SubSeq(text, Len(text) - 1, Len(text)) = <<NL, NL>>
    \/ \E i \in 1..(Len(text) - 3) : SubSeq(text, i, i + 3) = <<NL, NL, NL, NL>>

\* C18: every single-statement generator returns '' when a required field
\* of its config object is empty and SQL that is not empty otherwise;
\* generateMigrationFromDiff returns '' for an empty diff and its text never
\* has an empty statement between separators.
C18_GeneratorsEmptyIffFieldMissing ==
    /\ generated.called => (generated.text = <<>> <=> RequiredFieldEmpty(config))
    /\ migrationSql.called =>
          /\ IsEmptyDiff(diff) => migrationSql.text = <<>>
          /\ ~HasEmptyStatement(migrationSql.text)

\* A generator was called with every required field filled and an optional
\* one left empty, and a migration was generated from a diff with an added
\* table that has no column.
C18_Witness ==
    /\ generated.called
    /\ ~RequiredFieldEmpty(config)
    /\ config.generator = "generateAddForeignKey"
    /\ config.cfg.constraintName = ""
    /\ migrationSql.called
    /\ \E i \in 1..Len(diff.addedTables) : diff.addedTables[i].columns = <<>>
    /\ migrationSql.text # <<>>

----------------------------------------------------------------------------
(* Properties of the schema diff                                           *)

NamesOf(tables) == {tables[i].name : i \in 1..Len(tables)}
TableDiffNames(diffs) == {diffs[i].tableName : i \in 1..Len(diffs)}

\* How many entries of the three lists of the diff carry a table name
TimesListed(name) ==
    Cardinality({i \in 1..Len(diff.addedTables) : diff.addedTables[i].name = name})
      + Cardinality({i \in 1..Len(diff.removedTables) : diff.removedTables[i].name = name})
      + Cardinality({i \in 1..Len(diff.modifiedTables) :
                        diff.modifiedTables[i].tableName = name})

\* Two versions of a table differ when a column was added, removed or
\* modified (the columns, as sets of records, differ) or a foreign key was
\* added or removed (the constraint names differ)
TableChanged(before, after) ==
    \/ {before.columns[i] : i \in 1..Len(before.columns)}
         # {after.columns[i] : i \in 1..Len(after.columns)}
    \/ {before.foreignKeys[i].constraintName : i \in 1..Len(before.foreignKeys)}
         # {after.foreignKeys[i].constraintName : i \in 1..Len(after.foreignKeys)}

\* C19: diffSchemas lists a table name of the after snapshot only in
\* addedTables, one of the before snapshot only in removedTables, one of
\* both snapshots in modifiedTables when its columns or foreign keys
\* changed and nowhere when they did not, each once; the diff of a snapshot
\* with itself is empty.
C19_EachTableInOneList ==
    diff.called =>
        /\ \A name \in NamesOf(schemas.before) \cup NamesOf(schemas.after) :
              LET inBefore == name \in NamesOf(schemas.before)
                  inAfter == name \in NamesOf(schemas.after)
                  changed == inBefore /\ inAfter
                               /\ TableChanged(ByName(schemas.before, name),
                                               ByName(schemas.after, name))
              IN /\ name \in NamesOf(diff.addedTables) <=> (inAfter /\ ~inBefore)
                 /\ name \in NamesOf(diff.removedTables) <=> (inBefore /\ ~inAfter)
                 /\ name \in TableDiffNames(diff.modifiedTables) <=> changed
                 /\ TimesListed(name) = IF inBefore /\ inAfter /\ ~changed THEN 0 ELSE 1
        /\ schemas.before = schemas.after => IsEmptyDiff(diff)

\* A diff with an added, a removed and a modified table, of snapshots that
\* share a table which did not change.
C19_Witness ==
    /\ diff.called
    /\ diff.addedTables # <<>> /\ diff.removedTables # <<>> /\ diff.modifiedTables # <<>>
    /\ \E name \in NamesOf(schemas.before) \cap NamesOf(schemas.after) :
          ByName(schemas.before, name) = ByName(schemas.after, name)

----------------------------------------------------------------------------
(* Properties of the statements for modified columns                       *)

\* ALTER TABLE <table> ALTER COLUMN <column> followed by the given words
AlterColumnStatement(words) ==
    <<Lit("ALTER"), Ws1, Lit("TABLE"), Ws1, OptQ, Grp(1, <<Word>>), OptQ, Ws1,
      Lit("ALTER"), Ws1, Lit("COLUMN"), Ws1, OptQ, Grp(2, <<Word>>), OptQ, Ws1>> \o words

IsAlterColumnOf(m, stmt, table, column) ==
    m.pos # 0 /\ Group(m, stmt, 1) = <<table>> /\ Group(m, stmt, 2) = <<column>>

AltersColumn(stmt, table, column, words) ==
    IsAlterColumnOf(MatchStart(AlterColumnStatement(words), stmt), stmt, table, column)

\* What a generated statement changes of a column of a table, read off its
\* text: the type, the nullability, the default, or nothing
ChangeOf(stmt, table, column) ==
    CASE AltersColumn(stmt, table, column, <<Lit("TYPE")>>) -> "type"
      [] AltersColumn(stmt, table, column, <<Lit("SET"), Ws1, Lit("NOT"), Ws1, Lit("NULL")>>)
           -> "nullability"
      [] AltersColumn(stmt, table, column, <<Lit("DROP"), Ws1, Lit("NOT"), Ws1, Lit("NULL")>>)
           -> "nullability"
      [] AltersColumn(stmt, table, column, <<Lit("SET"), Ws1, Lit("DEFAULT")>>) -> "default"
      [] AltersColumn(stmt, table, column, <<Lit("DROP"), Ws1, Lit("DEFAULT")>>) -> "default"
      [] OTHER -> "none"

IsChange(change) == change # "none"

\* The changes the statements of a migration make to a column, in the
\* order of the statements
ChangesOf(stmts, table, column) ==
    FilterSeq(IsChange, [k \in 1..Len(stmts) |-> ChangeOf(stmts[k], table, column)])

\* The changes the before and after versions of a column ask for
ChangesAskedFor(col) ==
    (IF col.before.dataType # col.after.dataType THEN <<"type">> ELSE <<>>)
      \o (IF col.before.isNullable # col.after.isNullable THEN <<"nullability">> ELSE <<>>)
      \o (IF col.before.columnDefault # col.after.columnDefault THEN <<"default">> ELSE <<>>)

\* C20: for every modified column of the diff the generated migration has
\* a type-change statement exactly when dataType differs, a SET or DROP NOT
\* NULL exactly when isNullable differs and a SET or DROP DEFAULT exactly
\* when columnDefault differs, in this order.
C20_ModifiedColumnStatements ==
    migrationSql.called =>
        \A i \in 1..Len(diff.modifiedTables) :
            \A j \in 1..Len(diff.modifiedTables[i].modifiedColumns) :
                ChangesOf(GeneratedStatements(migrationSql.text),
                          diff.modifiedTables[i].tableName,
                          diff.modifiedTables[i].modifiedColumns[j].columnName)
                    = ChangesAskedFor(diff.modifiedTables[i].modifiedColumns[j])

\* A migration for a diff with a modified column whose type, nullability
\* and default all changed, and one for which only the primary-key flag did.
C20_Witness ==
    /\ migrationSql.called
    /\ \E i \in 1..Len(diff.modifiedTables) :
          \E j, k \in 1..Len(diff.modifiedTables[i].modifiedColumns) :
              /\ Len(ChangesAskedFor(diff.modifiedTables[i].modifiedColumns[j])) = 3
              /\ ChangesAskedFor(diff.modifiedTables[i].modifiedColumns[k]) = <<>>

----------------------------------------------------------------------------
(* Properties of the line numbers of the dry-run report                    *)

\* The positions of a text that hold text of a statement: not white space
\* and not in a `--` comment, which runs from its dashes to the end of the
\* line
InLineComment(s, p, dashes, breaks) ==
    \E q \in dashes : q <= p /\ ~\E r \in breaks : q <= r /\ r <= p

TextPositions(s) ==
    {p \in 1..Len(s) :
        /\ ~IsWs(s[p])
        /\ ~InLineComment(s, p, {q \in 1..Len(s) : s[q] = DASHES},
                          {r \in 1..Len(s) : s[r] = NL})}

\* The semicolons that end a statement: those with an even number of quotes
\* before them
EndsOfStatements(s, text) ==
    {p \in text : s[p] = SEMI /\ Cardinality({q \in text : q < p /\ s[q] = SQ}) % 2 = 0}

\* The positions where a statement starts: text that is not a semicolon
\* ending a statement and has no such text between it and the end of the
\* statement before (or the start of s)
FirstOfStatement(content, ends) ==
    {p \in content :
        ~\E q \in content : q < p /\ ~\E e \in ends : q < e /\ e < p}

StartsOfStatements(s, text, ends) == FirstOfStatement(text \ ends, ends)

\* The 1-based line numbers of the lines the statements of s start on, in
\* source order
StatementLines(s) ==
    LET starts == Ascending(StartsOfStatements(s, TextPositions(s),
                                               EndsOfStatements(s, TextPositions(s))))
    IN [k \in 1..Len(starts) |-> 1 + LineBreaksBefore(s, starts[k])]

\* C21: the operations of a report are in source order, and the line of
\* each is the number of the line on which the first text of its statement
\* that is neither blank nor comment stands, also for a statement that
\* starts on the line of the semicolon of the statement before.
C21_OperationLines ==
    report.called =>
        /\ Len(report.scanned) = Len(StatementLines(sql))
        /\ report.operations
             = FilterSeq(IsOperation,
                         [k \in 1..Len(report.scanned) |->
                             parseStatement(report.scanned[k].text, StatementLines(sql)[k])])

\* A report with two operations of one line, and an operation that starts
\* on a later line than the one before.
C21_Witness ==
    /\ report.called
    /\ \E i, j, k \in 1..Len(report.operations) :
          /\ i < j /\ report.operations[i].line = report.operations[j].line
          /\ report.operations[k].line > 2

----------------------------------------------------------------------------
(* Repeated calls: the engine's functions are called any number of times,  *)
(* in any order, on the same inputs.                                        *)

\* The caller's array had Array.prototype.sort been applied to it directly
migrationsSortedInPlace(ms) == sortByVersion(ms)

\* The caller's array after buildDependencyGraph returns: the function sorts
\* a copy, [...migrations].sort(...), and builds its nodes from the copy
migrationsAfterSort(ms) == ms

CallAnalyzeSql ==
    /\ lint' = analyzeSql(sql)
    /\ UNCHANGED <<sql, statements, down, report, refs, migrations, graph, schemas,
                   diff, migrationSql, config, generated, run, store>>

CallExtractTableRefs ==
    /\ refs' = [called |-> TRUE, list |-> extractTableRefs(sql)]
    /\ UNCHANGED <<sql, statements, down, report, lint, migrations, graph, schemas,
                   diff, migrationSql, config, generated, run, store>>

CallBuildDependencyGraph ==
    /\ graph' = buildDependencyGraph(migrations)
    /\ migrations' = migrationsAfterSort(migrations)
    /\ UNCHANGED <<sql, statements, down, report, lint, refs, schemas,
                   diff, migrationSql, config, generated, run, store>>

CallGenerateRollbackSql ==
    /\ down' = [called |-> TRUE, text |-> generateRollbackSql(sql),
                parsed |-> parsedRollbacks(sql)]
    /\ UNCHANGED <<sql, statements, report, lint, refs, migrations, graph,
                   schemas, diff, migrationSql, config, generated, run, store>>

CallAnalyzeDryRun ==
    /\ report' = analyzeDryRun(sql)
    /\ UNCHANGED <<sql, statements, down, lint, refs, migrations, graph, schemas,
                   diff, migrationSql, config, generated, run, store>>

CallGenerateMigrationFromDiff ==
    /\ migrationSql' = [called |-> TRUE, text |-> generateMigrationFromDiff(diff)]
    /\ UNCHANGED <<sql, statements, down, report, lint, refs, migrations, graph,
                   schemas, diff, config, generated, run, store>>

CallSqlInputs == {GraphWriteTTwice, GraphDropThenCreateT, LintUpdateAll}

CallMigrationTexts == {GraphCreateT, GraphAlterT}

NumCallMigrations == 2

CallSchemas ==
    {[before |-> <<SchemaTable("t", <<ColId>>, <<>>)>>,
      after |-> <<SchemaTable("t", <<ColId, ColC>>, <<>>), SchemaTable("u", <<ColId>>, <<>>)>>],
     [before |-> <<SchemaTable("u", <<ColId>>, <<>>)>>, after |-> <<>>]}

\* The diff handed to generateMigrationFromDiff is one diffSchemas produced
InitCalls ==
    /\ sql \in CallSqlInputs
    /\ \E versions \in VersionOrders(NumCallMigrations),
          texts \in [1..NumCallMigrations -> CallMigrationTexts] :
              migrations = MigrationList(versions, texts)
    /\ schemas \in CallSchemas
    /\ diff = diffSchemas(schemas.before, schemas.after)
    /\ config = NoConfig
    /\ statements = None /\ down = None /\ report = None /\ lint = None
    /\ refs = None /\ graph = None /\ migrationSql = None /\ generated = None
    /\ run = None /\ store = None

NextCalls ==
    \/ CallAnalyzeSql \/ CallExtractTableRefs \/ CallBuildDependencyGraph
    \/ CallGenerateRollbackSql \/ CallAnalyzeDryRun \/ CallGenerateMigrationFromDiff

SpecCalls == InitCalls /\ [][NextCalls]_vars

C27_ReversibleIffLowRisk ==
    report.called => (report.isFullyReversible <=> report.estimatedRisk = "low")

\* A report of several operations, all reversible, rated "low"
C27_Witness ==
    /\ report.called
    /\ Len(report.operations) >= 2
    /\ report.isFullyReversible
    /\ report.estimatedRisk = "low"

\* The rollback of a statement is a manual placeholder: a `-- TODO` comment
IsPlaceholder(rollback) ==
    Len(rollback) >= Len(Todo) /\ SubSeq(rollback, 1, Len(Todo)) = Todo

\* C28: when the text is a single statement that analyzeDryRun records as one
\* operation with reversible = true, the rollback generateRollbackSql produces
\* for it is a statement, not a `-- TODO` placeholder.
C28_ReversibleHasInverse ==
    (/\ report.called /\ down.called
     /\ Len(report.scanned) = 1 /\ Len(report.operations) = 1
     /\ report.operations[1].reversible)
    => /\ Len(down.parsed) = 1
       /\ ~IsPlaceholder(down.parsed[1].rollback)

\* C29: the migration generated from a diff that is not empty is not empty,
\* and it has at least one statement for every modified column of the diff.
C29_EveryChangeGenerated ==
    migrationSql.called =>
        /\ ~IsEmptyDiff(diff) => migrationSql.text # <<>>
        /\ \A i \in 1..Len(diff.modifiedTables) :
              \A j \in 1..Len(diff.modifiedTables[i].modifiedColumns) :
                  ChangesOf(GeneratedStatements(migrationSql.text),
                            diff.modifiedTables[i].tableName,
                            diff.modifiedTables[i].modifiedColumns[j].columnName) # <<>>

StartsWithDashes(line) == line # <<>> /\ line[1] = DASHES

AllStartWithDashes(lines) == \A k \in 1..Len(lines) : StartsWithDashes(lines[k])

\* C30: every line of every manual placeholder the rollback generator emits
\* starts with `--`, also when the UP statement has several lines.
C30_PlaceholderIsComment ==
    down.called =>
        \A i \in 1..Len(down.parsed) :
            IsPlaceholder(down.parsed[i].rollback)
                => AllStartWithDashes(splitLines(down.parsed[i].rollback))

\* A placeholder for a statement written on several lines, one of them blank
C30_Witness ==
    /\ down.called
    /\ \E i \in 1..Len(down.parsed) :
          /\ IsPlaceholder(down.parsed[i].rollback)
          /\ Len(splitLines(down.parsed[i].original)) >= 4
          /\ Len(splitLines(down.parsed[i].rollback)) >= 5

----------------------------------------------------------------------------
(* Validation run: validateProject and the route that streams its progress *)
(* events, POST /api/projects/:id/validate.  Every await of the code is a  *)
(* step; what the awaited call does (resolve or reject) is chosen by the   *)
(* environment.                                                            *)

MaxRunMigrations == 3

Others == <<sql, statements, down, report, lint, refs, graph, schemas, diff,
            migrationSql, config, generated>>

\* A progress event of one migration and the completion event
ProgressEvent(m, status) ==
    [done |-> FALSE, migrationId |-> m.id, version |-> m.version, status |-> status]

DoneEvent(overallStatus) == [done |-> TRUE, overallStatus |-> overallStatus]

\* The run before the request: errorMessage "" and failedMigrationId "" stand
\* for null, savedResult 0 for no saved result
NewRun(projectExists) ==
    [called |-> TRUE, pc |-> "request", projectExists |-> projectExists,
     allMigrations |-> <<>>, next |-> 1,
     overallStatus |-> "pass", failedMigrationId |-> "", errorMessage |-> "",
     capturedSchema |-> FALSE, container |-> FALSE,
     events |-> <<>>, ended |-> FALSE,
     validationResults |-> <<>>, schemaSnapshots |-> <<>>, savedResult |-> 0,
     containerError |-> FALSE, stopFailed |-> FALSE]

\* for (const m of allMigrations) onProgress({..., status: 'pending'})
pendingEvents(ms) == [i \in 1..Len(ms) |-> ProgressEvent(ms[i], "pending")]

\* The outer catch of validateProject and the test of its finally block:
\* the first error message is kept, a started container is stopped
catchContainerError(r, errMsg) ==
    [r EXCEPT !.overallStatus = IF r.errorMessage = "" THEN "fail" ELSE @,
              !.errorMessage = IF r.errorMessage = "" THEN errMsg ELSE @,
              !.containerError = TRUE,
              !.pc = IF r.container THEN "stop" ELSE "save"]

\* After the pass event the loop goes on to the next migration
migrationPassed(r, m) ==
    [r EXCEPT !.events = Append(@, ProgressEvent(m, "pass")),
              !.next = @ + 1,
              !.pc = IF r.next = Len(r.allMigrations) THEN "introspect" ELSE "migrate"]

\* (the catch of a failed migration without its break)
migrationFailedWithoutBreak(r, m, errMsg) ==
    [r EXCEPT !.overallStatus = "fail", !.failedMigrationId = m.id,
              !.errorMessage = errMsg,
              !.events = Append(@, ProgressEvent(m, "fail")),
              !.next = @ + 1,
              !.pc = IF r.next = Len(r.allMigrations) THEN "end" ELSE "migrate"]

\* The catch of a failed migration: stop on first failure
migrationFailed(r, m, errMsg) ==
    [r EXCEPT !.overallStatus = "fail", !.failedMigrationId = m.id,
              !.errorMessage = errMsg,
              !.events = Append(@, ProgressEvent(m, "fail")),
              !.pc = "end"]

\* The project is looked up, its migrations are fetched in version order and
\* announced as pending, and testcontainers is imported
ValidateProject ==
    /\ run.called /\ run.pc = "request"
    /\ \E available \in BOOLEAN :
          run' = IF ~run.projectExists
                 THEN [run EXCEPT !.pc = "caught"]
                 ELSE [run EXCEPT !.allMigrations = sortByVersion(migrations),
                                  !.events = pendingEvents(sortByVersion(migrations)),
                                  !.containerError = ~available,
                                  !.pc = IF available THEN "start" ELSE "caught"]
    /\ UNCHANGED <<Others, migrations, store>>

\* new PostgreSqlContainer(...).start() and the connection to it
StartContainer ==
    /\ run.called /\ run.pc = "start"
    /\ \E outcome \in {"started", "not started", "not connected"} :
          run' = CASE outcome = "started" ->
                        [run EXCEPT !.container = TRUE,
                                    !.pc = IF run.allMigrations = <<>> THEN "introspect"
                                           ELSE "migrate"]
                   [] outcome = "not started" -> catchContainerError(run, "start")
                   [] outcome = "not connected" ->
                        catchContainerError([run EXCEPT !.container = TRUE], "connect")
    /\ UNCHANGED <<Others, migrations, store>>

\* One turn of the loop over allMigrations
RunMigration ==
    /\ run.called /\ run.pc = "migrate"
    /\ \E ok \in BOOLEAN :
          run' = IF ok
                 THEN migrationPassed(
                          [run EXCEPT !.events = Append(@,
                              ProgressEvent(run.allMigrations[run.next], "running"))],
                          run.allMigrations[run.next])
                 ELSE migrationFailed(
                          [run EXCEPT !.events = Append(@,
                              ProgressEvent(run.allMigrations[run.next], "running"))],
                          run.allMigrations[run.next], "sql")
    /\ UNCHANGED <<Others, migrations, store>>

\* if (overallStatus === 'pass') capturedSchema = await introspectSchema(tempSql),
\* a failure is logged
IntrospectSchema ==
    /\ run.called /\ run.pc = "introspect"
    /\ \E ok \in BOOLEAN : run' = [run EXCEPT !.capturedSchema = ok, !.pc = "end"]
    /\ UNCHANGED <<Others, migrations, store>>

\* finally { await tempSql.end() }
EndConnection ==
    /\ run.called /\ run.pc = "end"
    /\ \E ok \in BOOLEAN :
          run' = IF ok THEN [run EXCEPT !.pc = "stop"] ELSE catchContainerError(run, "end")
    /\ UNCHANGED <<Others, migrations, store>>

\* finally { if (container) await container.stop() }, a failure is logged
StopContainer ==
    /\ run.called /\ run.pc = "stop"
    /\ \E ok \in BOOLEAN : run' = [run EXCEPT !.stopFailed = ~ok, !.pc = "save"]
    /\ UNCHANGED <<Others, migrations, store>>

\* db.insert(validationResults).values({status: overallStatus, ...})
SaveResult ==
    /\ run.called /\ run.pc = "save"
    /\ \E ok \in BOOLEAN :
          run' = IF ok
                 THEN [run EXCEPT !.validationResults =
                                      Append(@, [id |-> Len(@) + 1,
                                                 status |-> run.overallStatus]),
                                  !.savedResult = Len(run.validationResults) + 1,
                                  !.pc = IF run.capturedSchema THEN "snapshot"
                                         ELSE "complete"]
                 ELSE [run EXCEPT !.pc = "caught"]
    /\ UNCHANGED <<Others, migrations, store>>

\* if (capturedSchema) db.insert(schemaSnapshots), a failure is logged
SaveSnapshot ==
    /\ run.called /\ run.pc = "snapshot"
    /\ \E ok \in BOOLEAN :
          run' = [run EXCEPT !.schemaSnapshots =
                                 IF ok THEN Append(@, [validationResultId |-> run.savedResult])
                                 ELSE @,
                             !.pc = "complete"]
    /\ UNCHANGED <<Others, migrations, store>>

\* onProgress({done: true, overallStatus, validationResultId}) and the return
SendCompletion ==
    /\ run.called /\ run.pc = "complete"
    /\ run' = [run EXCEPT !.events = Append(@, DoneEvent(run.overallStatus)),
                          !.pc = "finally"]
    /\ UNCHANGED <<Others, migrations, store>>

\* The catch of the route: an exception of validateProject is reported as a
\* completion event with overallStatus 'fail'
RouteCatch ==
    /\ run.called /\ run.pc = "caught"
    /\ run' = [run EXCEPT !.events = Append(@, DoneEvent("fail")), !.pc = "finally"]
    /\ UNCHANGED <<Others, migrations, store>>

\* finally { reply.raw.end() }
RouteEnd ==
    /\ run.called /\ run.pc = "finally"
    /\ run' = [run EXCEPT !.ended = TRUE, !.pc = "closed"]
    /\ UNCHANGED <<Others, migrations, store>>

\* A project with up to MaxRunMigrations migrations, stored in any order, or
\* a request for a project that does not exist
InitValidate ==
    /\ sql = <<>>
    /\ \E exists \in BOOLEAN :
          /\ run = NewRun(exists)
          /\ \E n \in 0..(IF exists THEN MaxRunMigrations ELSE 0) :
                \E versions \in VersionOrders(n) :
                    migrations = MigrationList(versions, [i \in 1..n |-> GraphCreateT])
    /\ schemas = None /\ config = NoConfig
    /\ statements = None /\ down = None /\ report = None /\ lint = None
    /\ refs = None /\ graph = None /\ diff = None /\ migrationSql = None
    /\ generated = None /\ store = None

NextValidate ==
    \/ ValidateProject \/ StartContainer \/ RunMigration \/ IntrospectSchema
    \/ EndConnection \/ StopContainer \/ SaveResult \/ SaveSnapshot
    \/ SendCompletion \/ RouteCatch \/ RouteEnd

\* Every awaited call resolves or rejects, so the run always takes its next
\* step
SpecValidate == InitValidate /\ [][NextValidate]_vars /\ WF_vars(NextValidate)

IsProgress(e) == ~e.done

\* The progress events written so far, and the number of them with a status
Progress(events) == FilterSeq(IsProgress, events)

CountStatus(ev, status) == Cardinality({j \in 1..Len(ev) : ev[j].status = status})

\* The order of the progress events of n stored migrations: n pending events
\* in ascending version order, one per migration; then for the migrations in
\* the same order a running event followed by a pass or a fail event; nothing
\* after a fail event
InRunOrder(ev, n) ==
    /\ ev # <<>> => Len(ev) >= n
    /\ \A j \in 1..Len(ev) :
          IF j <= n
          THEN /\ ev[j].status = "pending"
               /\ j > 1 => ev[j - 1].version < ev[j].version
               /\ \E i \in 1..n : /\ migrations[i].id = ev[j].migrationId
                                  /\ migrations[i].version = ev[j].version
          ELSE /\ (j - n + 1) \div 2 <= n
               /\ ev[j].migrationId = ev[(j - n + 1) \div 2].migrationId
               /\ ev[j].version = ev[(j - n + 1) \div 2].version
               /\ IF (j - n) % 2 = 1 THEN ev[j].status = "running"
                  ELSE ev[j].status \in {"pass", "fail"}
               /\ ev[j].status = "fail" => j = Len(ev)

\* A completion event is the last event written, and a closed stream has one
DoneIsLast(r) ==
    /\ \A j \in 1..Len(r.events) : r.events[j].done => j = Len(r.events)
    /\ r.ended => r.events # <<>> /\ r.events[Len(r.events)].done

AllPassed(r) == CountStatus(Progress(r.events), "pass") = Len(migrations)

\* C23 as stated: the progress events of a run of an existing project come in
\* run order, a completion event is the last event and a closed stream has
\* one, and the completion event says "pass" exactly when every migration
\* passed and no container-level error occurred.
C23_EventsAndStatus ==
    (run.called /\ run.projectExists) =>
        /\ InRunOrder(Progress(run.events), Len(migrations))
        /\ DoneIsLast(run)
        /\ \A j \in 1..Len(run.events) :
              run.events[j].done =>
                  (run.events[j].overallStatus = "pass"
                      <=> AllPassed(run) /\ ~run.containerError)

\* The events of every run obey the order, and the completion event says
\* "pass" exactly when every migration passed, no container-level error
\* occurred and the validation result was saved
EventsAndSavedStatus ==
    run.called =>
        /\ InRunOrder(Progress(run.events), Len(migrations))
        /\ DoneIsLast(run)
        /\ \A j \in 1..Len(run.events) :
              run.events[j].done =>
                  (run.events[j].overallStatus = "pass"
                      <=> AllPassed(run) /\ ~run.containerError /\ run.savedResult # 0)

\* C23 (amended): in every run the progress events come in run order, the
\* stream is closed with exactly one completion event as its last event, and
\* that event says "pass" exactly when every migration passed, no
\* container-level error occurred and the validation result was saved.
C23_EventsAndSavedStatus == []EventsAndSavedStatus /\ <>(run.called /\ run.ended)

\* A closed stream of a run whose second migration failed and whose third
\* never ran
C23_Witness ==
    /\ run.called /\ run.ended
    /\ Len(migrations) = 3
    /\ CountStatus(Progress(run.events), "pass") = 1
    /\ CountStatus(Progress(run.events), "fail") = 1
    /\ CountStatus(Progress(run.events), "running") = 2

\* C24: every stored schema snapshot is attached to a validation result with
\* status "pass".
C24_SnapshotsOfPassedRuns ==
    run.called =>
        \A k \in 1..Len(run.schemaSnapshots) :
            \E i \in 1..Len(run.validationResults) :
                /\ run.validationResults[i].id = run.schemaSnapshots[k].validationResultId
                /\ run.validationResults[i].status = "pass"

----------------------------------------------------------------------------
(* renumberMigrations and insertMigrationAtVersion on the migrations table, *)
(* whose rows are unique in (project_id, version).  Every UPDATE and INSERT *)
(* of the code is a statement of its own, so each is a step; a statement    *)
(* that violates the constraint is rejected and the function throws.        *)

MaxRows == 3

\* const tempOffset = 100000
tempOffset == 100000

Row(id, projectId, version) == [id |-> id, projectId |-> projectId, version |-> version]

IsRowOf(projectId, fromVersion, row) ==
    row.projectId = projectId /\ row.version >= fromVersion

\* select().from(migrations).where(project_id = projectId [and version >=
\* fromVersion]).orderBy(asc(version))
selectMigrations(rows, projectId, fromVersion) ==
    sortByVersion(FilterSeq(LAMBDA row : IsRowOf(projectId, fromVersion, row), rows))

\* unique('uq_project_version').on(projectId, version): another row of the
\* project has the version
violatesUnique(rows, id, projectId, version) ==
    \E k \in 1..Len(rows) :
        rows[k].id # id /\ rows[k].projectId = projectId /\ rows[k].version = version

\* update(migrations).set({version}).where(eq(migrations.id, m.id))
updateVersion(s, m, version) ==
    IF violatesUnique(s.rows, m.id, m.projectId, version)
    THEN [s EXCEPT !.failed = TRUE, !.pc = "thrown"]
    ELSE [s EXCEPT !.rows = [k \in 1..Len(s.rows) |->
                                IF s.rows[k].id = m.id
                                THEN [s.rows[k] EXCEPT !.version = version]
                                ELSE s.rows[k]]]

\* The next turn of a loop over the rows read, or what follows the loop
nextTurn(s, after) ==
    IF s.pc = "thrown" THEN s
    ELSE IF s.i = Len(s.existing) THEN [s EXCEPT !.i = 1, !.pc = after]
    ELSE [s EXCEPT !.i = @ + 1]

\* (the rows to shift, lowest version first)
shiftOrderAscending(toShift) == toShift

\* for (let i = toShift.length - 1; i >= 0; i--): the rows to shift, highest
\* version first
shiftOrder(toShift) == Reverse(toShift)

NewStore(op, projectId, targetVersion, rows) ==
    [called |-> TRUE, op |-> op, projectId |-> projectId,
     targetVersion |-> targetVersion, pc |-> "request",
     rows |-> rows, before |-> rows, existing |-> <<>>, i |-> 1, failed |-> FALSE]

\* renumberMigrations: the rows of the project are read in version order
RenumberSelect ==
    /\ store.called /\ store.op = "renumber" /\ store.pc = "request"
    /\ store' = [store EXCEPT
                    !.existing = selectMigrations(store.rows, store.projectId, 0),
                    !.pc = IF selectMigrations(store.rows, store.projectId, 0) = <<>>
                           THEN "returned" ELSE "first pass"]
    /\ UNCHANGED <<Others, migrations, run>>

\* First pass: one row is moved to its version plus tempOffset
RenumberFirstPass ==
    /\ store.called /\ store.pc = "first pass"
    /\ store' = nextTurn(updateVersion(store, store.existing[store.i],
                                       store.existing[store.i].version + tempOffset),
                         "second pass")
    /\ UNCHANGED <<Others, migrations, run>>

\* Second pass: the i-th row read gets version i
RenumberSecondPass ==
    /\ store.called /\ store.pc = "second pass"
    /\ store' = nextTurn(updateVersion(store, store.existing[store.i], store.i),
                         "returned")
    /\ UNCHANGED <<Others, migrations, run>>

\* insertMigrationAtVersion: the rows at or above the target version are read
InsertSelect ==
    /\ store.called /\ store.op = "insert" /\ store.pc = "request"
    /\ store' = [store EXCEPT
                    !.existing = shiftOrder(selectMigrations(store.rows, store.projectId,
                                                             store.targetVersion)),
                    !.pc = IF selectMigrations(store.rows, store.projectId,
                                               store.targetVersion) = <<>>
                           THEN "insert" ELSE "shift"]
    /\ UNCHANGED <<Others, migrations, run>>

\* One row is shifted up by one
InsertShift ==
    /\ store.called /\ store.pc = "shift"
    /\ store' = nextTurn(updateVersion(store, store.existing[store.i],
                                       store.existing[store.i].version + 1),
                         "insert")
    /\ UNCHANGED <<Others, migrations, run>>

\* insert(migrations).values({projectId, version: targetVersion, ...})
InsertCreate ==
    /\ store.called /\ store.pc = "insert"
    /\ store' = IF violatesUnique(store.rows, "new", store.projectId, store.targetVersion)
                THEN [store EXCEPT !.failed = TRUE, !.pc = "thrown"]
                ELSE [store EXCEPT
                         !.rows = Append(@, Row("new", store.projectId,
                                                store.targetVersion)),
                         !.pc = "returned"]
    /\ UNCHANGED <<Others, migrations, run>>

\* Versions a stored migration may have: small ones, with a gap, and two that
\* lie tempOffset above a small one
StoredVersions == {1, 2, 4, tempOffset + 1, tempOffset + 2}

\* n rows of project p in the order they were inserted: distinct versions
RowsWith(n) ==
    {[k \in 1..n |-> Row(MigrationIds[k], "p", versions[k])] :
        versions \in {f \in [1..n -> StoredVersions] :
                         \A a, b \in 1..n : f[a] = f[b] => a = b}}

RowsOfP == UNION {RowsWith(n) : n \in 0..MaxRows}

\* The rows of another project
RowsOfQ == {<<>>, <<Row("other", "q", 1)>>, <<Row("other", "q", tempOffset + 1)>>}

TargetVersions == 1..3

InitStore ==
    /\ sql = <<>> /\ migrations = None
    /\ \E p \in RowsOfP, q \in RowsOfQ :
          \/ store = NewStore("renumber", "p", 0, q \o p)
          \/ \E v \in TargetVersions : store = NewStore("insert", "p", v, q \o p)
    /\ schemas = None /\ config = NoConfig
    /\ statements = None /\ down = None /\ report = None /\ lint = None
    /\ refs = None /\ graph = None /\ diff = None /\ migrationSql = None
    /\ generated = None /\ run = None

NextStore ==
    \/ RenumberSelect \/ RenumberFirstPass \/ RenumberSecondPass
    \/ InsertSelect \/ InsertShift \/ InsertCreate

SpecStore == InitStore /\ [][NextStore]_vars

\* No two rows of a project have the same version
VersionsUnique(rows) ==
    \A a, b \in 1..Len(rows) :
        (rows[a].projectId = rows[b].projectId /\ rows[a].version = rows[b].version)
            => a = b

\* C25: renumberMigrations never has an update rejected by the unique
\* constraint; when it has returned, the n rows of the project have the
\* versions 1..n in the relative order they had before, and the rows of other
\* projects are as they were.
C25_RenumberedInOrder ==
    (store.called /\ store.op = "renumber") =>
        /\ ~store.failed
        /\ store.pc = "returned" =>
              /\ Len(store.rows) = Len(store.before)
              /\ \A k \in 1..Len(store.rows) :
                    IF store.before[k].projectId = store.projectId
                    THEN store.rows[k].version =
                             Cardinality({j \in 1..Len(store.before) :
                                 /\ store.before[j].projectId = store.projectId
                                 /\ store.before[j].version <= store.before[k].version})
                    ELSE store.rows[k] = store.before[k]

\* C26: insertMigrationAtVersion never has a statement rejected by the unique
\* constraint; when it has returned, every row of the project that had a
\* version at or above the target has that version plus one, every other row
\* is as it was, the new row has the target version, and no two rows of a
\* project share a version.
C26_ShiftedByOne ==
    (store.called /\ store.op = "insert") =>
        /\ ~store.failed
        /\ VersionsUnique(store.rows)
        /\ store.pc = "returned" =>
              /\ Len(store.rows) = Len(store.before) + 1
              /\ store.rows[Len(store.rows)] =
                     Row("new", store.projectId, store.targetVersion)
              /\ \A k \in 1..Len(store.before) :
                    store.rows[k] =
                        IF IsRowOf(store.projectId, store.targetVersion, store.before[k])
                        THEN [store.before[k] EXCEPT !.version = @ + 1]
                        ELSE store.before[k]

\* An insert that has returned after shifting two rows with consecutive
\* versions, with a row below the target and a row of another project
C26_Witness ==
    /\ store.called /\ store.op = "insert" /\ store.pc = "returned"
    /\ \E a, b, c, d \in 1..Len(store.before) :
          /\ IsRowOf(store.projectId, store.targetVersion, store.before[a])
          /\ IsRowOf(store.projectId, store.targetVersion, store.before[b])
          /\ store.before[b].version = store.before[a].version + 1
          /\ store.before[c].projectId = store.projectId
          /\ store.before[c].version < store.targetVersion
          /\ store.before[d].projectId # store.projectId

====
